---- MODULE Spec2Model ----
(***************************************************************************)
(* Model of the OpenAI / HuggingFace model parsers:                        *)
(*   - OpenAIChatModelParser.deserialize / addPromptAsMessage, the chat    *)
(*     history walk over the prompts of an AIConfig document;              *)
(*   - the streaming runs of the three parsers, with the chat parser's     *)
(*     multiChoiceMessageReducer / reduce stream fold.                     *)
(*   - CallbackManager.runCallbacks and the lifecycle hooks of the calls;  *)
(*   - isEqual / extractOverrideSettings, getOutputText and the chat       *)
(*     parser's serialize;                                                 *)
(*   - concurrent run calls on one parser instance, and the stream fold    *)
(*     over objects with identity.                                         *)
(***************************************************************************)
EXTENDS Integers, Sequences, FiniteSets, TLC

VARIABLES
    prompts,    \* aiConfig.prompts: the document's prompts, in declared order
    models,     \* aiConfig.metadata.models[m]: the settings object the prompts refer to
    request,    \* what the last deserialize call returned (NoRequest before any call)
    run,        \* the run call in progress: parser variant, options, prompt, stream flag
    pc,         \* where the run is: idle, streaming, awaiting, done or failed
    error,      \* what a failed run threw
    fragments,  \* the chunks the response stream has delivered so far, in order
    messages,   \* chat run: let messages, the accumulator of multiChoiceMessageReducer
    previous,   \* chat run: the accumulator as it was before the latest chunk
    completions,        \* text-completion run: let completions, text per choice index
    accumulatedMessage, \* text-generation run: let accumulatedMessage
    outputs,    \* chat and text-completion run: let outputs, a Map in insertion order
    hfOutput,   \* text-generation run: let output in constructStreamOutput
    callbacks,  \* the calls made to options.callbacks.streamCallback, in order
    listeners,  \* callbackManager.callbacks.length: the listeners attached
    caller,     \* the parser call whose lifecycle hooks are followed
    phase,      \* where that call is: idle, start, body, end, returned or failed
    failure,    \* what a failed call rejected with
    events,     \* the names of the events the call notified, in order
    notifications,  \* the runCallbacks calls made so far, each with its tasks
    results,    \* callbackManager.results
    args,       \* the arguments of the latest call of a pure function
    result,     \* what that call returned
    client,     \* this.openai / this.hfClient of the parser instance: 0 for null
    constructed,    \* the number of provider clients constructed so far
    activeRuns, \* the run calls made on the parser instance, each with its local state
    timeline,   \* the calls in the order they assigned prompt.outputs and returned
    heap,       \* the objects a chat stream and its fold allocated, by address
    refs        \* the Map of the fold and the messages handed on, as addresses

chatVars == <<prompts, models, request>>
runVars == <<run, pc, error, fragments, messages, previous, completions,
             accumulatedMessage, outputs, hfOutput, callbacks>>
hubVars == <<listeners, caller, phase, failure, events, notifications, results>>
evalVars == <<args, result>>
parserVars == <<client, constructed, activeRuns, timeline>>
heapVars == <<heap, refs>>
vars == <<prompts, models, request, run, pc, error, fragments, messages, previous,
          completions, accumulatedMessage, outputs, hfOutput, callbacks,
          listeners, caller, phase, failure, events, notifications, results,
          args, result, client, constructed, activeRuns, timeline, heap, refs>>

(***************************************************************************)
(* Bounds                                                                  *)
(***************************************************************************)
\* Largest number of prompts in the document.
MaxPrompts == 2
\* Largest length of a messages list stored in the model settings.
MaxStoredMessages == 3
\* Largest number of listeners attached to the callback manager.
MaxListeners == 2
\* Largest number of chunks a response stream delivers.
MaxChunks == 3
\* Largest number of messages in a chat request that is serialized.
MaxRequestMessages == 3
\* Largest number of run calls made on one parser instance.
MaxRuns == 2

\* The values a caller passes as params to resolve templates with.
Params == {"x1", "x2"}

(***************************************************************************)
(* Texts.  A text is a record [of, part, with]: `of` names the prompt (or  *)
(* settings entry) the text was written in, `part` tells input from output,*)
(* `with` is "unresolved" for a template that still holds placeholders,    *)
(* the params it was resolved with once resolved, "literal" for text       *)
(* without placeholders.  NoText stands for null / undefined content.      *)
(***************************************************************************)
NoText == [of |-> "none", part |-> "null", with |-> "literal"]
EmptyText == [of |-> "none", part |-> "empty", with |-> "literal"]
Template(n, part) == [of |-> n, part |-> part, with |-> "unresolved"]
Literal(n, part) == [of |-> n, part |-> part, with |-> "literal"]

\* this.resolvePromptTemplate(template, prompt, aiConfig, params): every
\* placeholder of the template is replaced from params; a text without
\* placeholders (already resolved, or literal) is returned as it is.
resolvePromptTemplate(template, params) ==
    IF template.with = "unresolved" THEN [template EXCEPT !.with = params]
    ELSE template

\* content ?? ""
OrEmpty(text) == IF text = NoText THEN EmptyText ELSE text

(***************************************************************************)
(* Messages (ChatCompletionMessageParam): role, content, function_call and *)
(* name; "undefined" / NoText for an absent field.                         *)
(***************************************************************************)
Message(role, content, call, name) ==
    [role |-> role, content |-> content, function_call |-> call, name |-> name]

(***************************************************************************)
(* Outputs.  data is one of                                                *)
(*   k = "string"       a plain string (text)                              *)
(*   k = "value_string" {kind: "string", value: text}                      *)
(*   k = "tool_calls"   {kind: "tool_calls", value: calls}                 *)
(*   k = "message"      legacy: a ChatCompletionMessageParam {role,content}*)
(*   k = "other"        any other shape                                    *)
(* metadata holds role, raw_response.role and name ("undefined" if absent).*)
(***************************************************************************)
Data(k, text, role, calls) == [k |-> k, text |-> text, role |-> role, calls |-> calls]
Metadata(role, rawRole, name) == [role |-> role, raw_response_role |-> rawRole, name |-> name]
Output(type, data, metadata) == [output_type |-> type, data |-> data, metadata |-> metadata]

\* An answer as a non-streaming run records it: metadata.role and
\* raw_response.role are both "assistant".
AnswerOutput(n) ==
    Output("execute_result", Data("string", Literal(n, "output"), "undefined", <<>>),
           Metadata("assistant", "assistant", "undefined"))

\* A text output whose metadata attributes it to the user.
UserOutput(n) ==
    Output("execute_result", Data("string", Literal(n, "output"), "undefined", <<>>),
           Metadata("user", "user", "undefined"))

\* The recorded outputs a document's prompt n may carry.
SampleOutputs(n) ==
    LET text == Literal(n, "output")
        call == Literal(n, "call")
        str  == Data("string", text, "undefined", <<>>)
        none == Metadata("undefined", "undefined", "undefined")
    IN  { <<>>,
          << AnswerOutput(n) >>,
          \* as a streaming run records it: only raw_response carries the role
          << Output("execute_result", str, Metadata("undefined", "assistant", "undefined")) >>,
          \* outputs attributed to other roles
          << UserOutput(n) >>,
          << Output("execute_result", str, Metadata("undefined", "function", "undefined")) >>,
          \* a tool call
          << Output("execute_result", Data("tool_calls", NoText, "undefined", <<call>>),
                    Metadata("assistant", "assistant", "bot")) >>,
          \* legacy raw-message data
          << Output("execute_result", Data("message", text, "assistant", <<>>), none) >>,
          << Output("execute_result", Data("message", text, "user", <<>>), none) >>,
          \* an older answer followed by an error record
          << AnswerOutput(n),
             Output("error", Data("other", NoText, "undefined", <<>>), none) >> }

(***************************************************************************)
(* Prompts.  input is a string template (kind "string"), an object with a  *)
(* string data field (kind "data") or a message-shaped object (kind        *)
(* "message") with a role.                                                 *)
(***************************************************************************)
PromptName(k) == "p" \o ToString(k)

Input(kind, text, role) == [kind |-> kind, text |-> text, role |-> role]

SampleInputs(n) ==
    { Input("string", Template(n, "input"), "undefined"),
      Input("message", Template(n, "input"), "function") }

Prompt(n, input, remember, outs) ==
    [name |-> n, input |-> input,
     metadata |-> [remember_chat_context |-> remember], outputs |-> outs]

\* remember_chat_context: "undefined", "true" or "false".
\* The input, the flag and the outputs are read by separate parts of the
\* code, so the samples vary the outputs for one input and flag, and the
\* input and flag for two outputs.
SamplePrompts(n) ==
    { Prompt(n, Input("string", Template(n, "input"), "undefined"), "true", o) :
        o \in SampleOutputs(n) }
    \cup { Prompt(n, i, r, o) : i \in SampleInputs(n), r \in {"true", "false"},
                                o \in { <<>>, << AnswerOutput(n) >> } }
    \cup { Prompt(n, Input("string", Template(n, "input"), "undefined"), "false",
                  << UserOutput(n) >>) }

(***************************************************************************)
(* Model settings: system_prompt is absent (k = "undefined"), a string or  *)
(* a stored message object; messages is absent (has = FALSE) or a stored   *)
(* list of messages; stream is "undefined", "true" or "false".             *)
(***************************************************************************)
SystemPrompt(k, content, role) == [k |-> k, content |-> content, role |-> role]
NoSystemPrompt == SystemPrompt("undefined", NoText, "undefined")

Stored(has, list) == [has |-> has, list |-> list]
NoMessages == Stored(FALSE, <<>>)

Settings(sys, msgs, stream) == [system_prompt |-> sys, messages |-> msgs, stream |-> stream]

SampleSettings ==
    { Settings(NoSystemPrompt, NoMessages, "undefined"),
      Settings(SystemPrompt("string", Template("sys", "system"), "system"), NoMessages, "undefined"),
      Settings(SystemPrompt("object", Template("sys", "system"), "system"), NoMessages, "undefined"),
      Settings(SystemPrompt("object", Template("sys", "system"), "system"),
               Stored(TRUE, << Message("user", Template("stored", "input"), NoText, "undefined") >>),
               "undefined") }

\* this.getModelSettings(prompt, aiConfig): every prompt refers to the model
\* by its bare name, so its settings are the global settings object itself.
getModelSettings(prompt, settings) == settings

\* aiConfig.getLatestOutput(prompt): the last recorded output, if any.
HasOutput(prompt) == Len(prompt.outputs) > 0
getLatestOutput(prompt) == prompt.outputs[Len(prompt.outputs)]

(***************************************************************************)
(* OpenAIChatModelParser.addPromptAsMessage                                *)
(***************************************************************************)
\* getPromptTemplate: the input string, else input.data, else content ?? "".
getPromptTemplate(prompt) ==
    IF prompt.input.kind = "string" THEN prompt.input.text
    ELSE IF prompt.input.kind = "data" THEN prompt.input.text
    ELSE OrEmpty(prompt.input.text)

\* The user (or role-qualified) turn of a prompt.
UserTurn(prompt, params) ==
    LET resolvedPrompt == resolvePromptTemplate(getPromptTemplate(prompt), params)
    IN  IF prompt.input.kind = "string"
        THEN Message("user", resolvedPrompt, NoText, "undefined")
        ELSE Message(IF prompt.input.role = "undefined" THEN "user" ELSE prompt.input.role,
                     resolvedPrompt, NoText, "undefined")

\* The test  output.metadata?.role ?? output.metadata?.raw_response?.role === "assistant"
\* `===` binds tighter than `??`: a metadata.role that is neither null nor
\* undefined decides the test by its truthiness (any non-empty string).
IsAssistantOutput(output) ==
    IF output.metadata.role # "undefined"
    THEN output.metadata.role # ""
    ELSE output.metadata.raw_response_role = "assistant"

\* The messages addPromptAsMessage pushes for the prompt's latest output.
AssistantTurn(prompt) ==
    IF ~HasOutput(prompt) THEN <<>>
    ELSE LET output == getLatestOutput(prompt)
             data == output.data
         IN  IF output.output_type # "execute_result" THEN <<>>
             ELSE IF IsAssistantOutput(output)
             THEN LET content == IF data.k \in {"string", "value_string"}
                                 THEN data.text ELSE NoText
                      functionCall == IF data.k = "tool_calls"
                                      THEN data.calls[Len(data.calls)] ELSE NoText
                  IN  << Message("assistant", content, functionCall, output.metadata.name) >>
             ELSE IF data.k = "message"
             THEN IF data.role = "assistant"
                  THEN << Message(data.role, data.text, NoText, "undefined") >>
                  ELSE <<>>
             ELSE <<>>

\* A variant that pushes the recorded answer before the prompt's own turn:
\* the ordering of the history (C2) tells it from addPromptAsMessage.
addPromptAsMessage_AnswerFirst(prompt, msgs, params) ==
    (msgs \o AssistantTurn(prompt)) \o << UserTurn(prompt, params) >>

addPromptAsMessage(prompt, msgs, params) ==
    (msgs \o << UserTurn(prompt, params) >>) \o AssistantTurn(prompt)

(***************************************************************************)
(* OpenAIChatModelParser.deserialize                                       *)
(***************************************************************************)
\* A variant that ignores the flag: the history of a prompt that declares
\* remember_chat_context == false (C3) tells it from RemembersContext.
RemembersContext_Always(prompt) == TRUE

\* prompt?.metadata?.remember_chat_context !== false
RemembersContext(prompt) == prompt.metadata.remember_chat_context # "false"

\* A variant that never ends the walk: the history boundary (C1) tells it
\* from ReachedTarget.
ReachedTarget_Never(currentPrompt, prompt) == FALSE

\* currentPrompt.name === prompt.name: the end of the chat history
ReachedTarget(currentPrompt, prompt) == currentPrompt.name = prompt.name

\* The loop over aiConfig.prompts, from index i on.
RECURSIVE HistoryWalk(_, _, _, _, _)
HistoryWalk(ps, i, prompt, msgs, params) ==
    IF i > Len(ps) THEN msgs
    ELSE LET added == addPromptAsMessage(ps[i], msgs, params)
         IN  IF ReachedTarget(ps[i], prompt) THEN added
             ELSE HistoryWalk(ps, i + 1, prompt, added, params)

\* The system message pushed first, its content resolved.
SystemMessages(settings, params) ==
    IF settings.system_prompt.k = "undefined" THEN <<>>
    ELSE << Message(settings.system_prompt.role,
                    resolvePromptTemplate(OrEmpty(settings.system_prompt.content), params),
                    NoText, "undefined") >>

\* The stored messages, each content resolved.
ResolvedStored(settings, params) ==
    [j \in 1..Len(settings.messages.list) |->
        [settings.messages.list[j] EXCEPT
            !.content = resolvePromptTemplate(OrEmpty(@), params)]]

\* completionParams.messages as deserialize returns it.
deserializeMessages(prompt, ps, settings, params) ==
    IF ~settings.messages.has
    THEN LET msgs == SystemMessages(settings, params)
         IN  IF RemembersContext(prompt)
             THEN HistoryWalk(ps, 1, prompt, msgs, params)
             ELSE addPromptAsMessage(prompt, msgs, params)
    ELSE addPromptAsMessage(prompt, ResolvedStored(settings, params), params)

\* The settings object after deserialize: a stored system-prompt object and
\* a stored messages list are the very objects deserialize writes to.
settingsAfterDeserialize(prompt, ps, settings, params) ==
    IF ~settings.messages.has
    THEN IF settings.system_prompt.k = "object"
         THEN [settings EXCEPT !.system_prompt.content =
                                  resolvePromptTemplate(OrEmpty(@), params)]
         ELSE settings
    ELSE [settings EXCEPT !.messages.list =
                             deserializeMessages(prompt, ps, settings, params)]

NoRequest == [op |-> "none"]

(***************************************************************************)
(* JSON values of a streamed response.  A string is a sequence of          *)
(* characters; an object is a function from its keys to values.            *)
(***************************************************************************)
JNull == [t |-> "null"]
JNum(n) == [t |-> "num", n |-> n]
JStr(s) == [t |-> "str", s |-> s]
JArr(a) == [t |-> "arr", a |-> a]
JObj(o) == [t |-> "obj", o |-> o]

\* {} , also what the spread {...[]} of the empty array gives
EmptyObject == JObj([k \in {} |-> JNull])

\* What reduce throws: Object.entries(null) is a TypeError.
TypeError == [t |-> "TypeError"]

\* The position a key of Object.entries names in a string or an array.
IndexOf(k, n) == CHOOSE i \in 1..n : ToString(i - 1) = k

\* The keys of Object.entries(value): the keys of an object, the indices of
\* an array or of a string, none for a number.
EntryKeys(value) ==
    IF value.t = "obj" THEN DOMAIN value.o
    ELSE IF value.t = "arr" THEN { ToString(i - 1) : i \in 1..Len(value.a) }
    ELSE IF value.t = "str" THEN { ToString(i - 1) : i \in 1..Len(value.s) }
    ELSE {}

EntryValue(value, k) ==
    IF value.t = "obj" THEN value.o[k]
    ELSE IF value.t = "arr" THEN value.a[IndexOf(k, Len(value.a))]
    ELSE JStr(<< value.s[IndexOf(k, Len(value.s))] >>)

\* A variant with a final else branch that overwrites the accumulated value:
\* the field rules (C7) tell it from reduce.
RECURSIVE reduce_Overwrite(_, _)
reduce_Overwrite(acc, delta) ==
    IF delta.t = "null" THEN TypeError
    ELSE LET keys == EntryKeys(delta)
             Field(key) ==
                 LET value == EntryValue(delta, key)
                 IN  IF key \notin DOMAIN acc.o THEN value
                     ELSE IF acc.o[key].t = "null" THEN value
                     ELSE IF acc.o[key].t = "str" /\ value.t = "str"
                          THEN JStr(acc.o[key].s \o value.s)
                     ELSE IF acc.o[key].t = "obj"
                          THEN reduce_Overwrite(acc.o[key], value)
                     ELSE value
         IN  IF \E key \in keys : Field(key) = TypeError THEN TypeError
             ELSE JObj([key \in (DOMAIN acc.o) \cup keys |->
                          IF key \in keys THEN Field(key) ELSE acc.o[key]])

\* A variant that puts the incoming string in front of the accumulated one:
\* the fold of text (C8) tells it from reduce.
RECURSIVE reduce_Prepend(_, _)
reduce_Prepend(acc, delta) ==
    IF delta.t = "null" THEN TypeError
    ELSE LET keys == EntryKeys(delta)
             Field(key) ==
                 LET value == EntryValue(delta, key)
                 IN  IF key \notin DOMAIN acc.o THEN value
                     ELSE IF acc.o[key].t = "null" THEN value
                     ELSE IF acc.o[key].t = "str" /\ value.t = "str"
                          THEN JStr(value.s \o acc.o[key].s)
                     ELSE IF acc.o[key].t = "obj"
                          THEN reduce_Prepend(acc.o[key], value)
                     ELSE acc.o[key]
         IN  IF \E key \in keys : Field(key) = TypeError THEN TypeError
             ELSE JObj([key \in (DOMAIN acc.o) \cup keys |->
                          IF key \in keys THEN Field(key) ELSE acc.o[key]])

\* reduce(acc, delta): acc is an object; the result is an object, or
\* TypeError when Object.entries meets null at some level.
RECURSIVE reduce(_, _)
reduce(acc, delta) ==
    IF delta.t = "null" THEN TypeError
    ELSE LET keys == EntryKeys(delta)
             Field(key) ==
                 LET value == EntryValue(delta, key)
                 IN  IF key \notin DOMAIN acc.o THEN value
                     ELSE IF acc.o[key].t = "null" THEN value
                     ELSE IF acc.o[key].t = "str" /\ value.t = "str"
                          THEN JStr(acc.o[key].s \o value.s)
                     ELSE IF acc.o[key].t = "obj" THEN reduce(acc.o[key], value)
                     ELSE acc.o[key]
         IN  IF \E key \in keys : Field(key) = TypeError THEN TypeError
             ELSE JObj([key \in (DOMAIN acc.o) \cup keys |->
                          IF key \in keys THEN Field(key) ELSE acc.o[key]])

(***************************************************************************)
(* multiChoiceMessageReducer.  The accumulator is null (isNull) or a Map   *)
(* from choice index to the partial message.  The result carries the error *)
(* thrown, if any, and the Map as the call leaves it.                      *)
(***************************************************************************)
NullMessages == [isNull |-> TRUE, map |-> [i \in {} |-> EmptyObject]]

\* A variant that never reports a mismatch: the choice-count invariant (C5)
\* tells it from SizeMismatch.
SizeMismatch_Unchecked(acc, chunk) == FALSE

\* messages.size !== chunk.choices.length
SizeMismatch(acc, chunk) ==
    Cardinality(DOMAIN acc.map) # Len(chunk.choices)

\* The loop over chunk.choices, from position i on.
RECURSIVE ReduceChoices(_, _, _)
ReduceChoices(map, choices, i) ==
    IF i > Len(choices) THEN [error |-> "none", map |-> map]
    ELSE LET choice == choices[i]
             previousMessage == IF choice.index \in DOMAIN map
                                THEN map[choice.index] ELSE EmptyObject
             updatedMessage == reduce(previousMessage, choice.delta)
         IN  IF updatedMessage = TypeError THEN [error |-> "TypeError", map |-> map]
             ELSE ReduceChoices((choice.index :> updatedMessage) @@ map, choices, i + 1)

multiChoiceMessageReducer(acc, chunk) ==
    IF ~acc.isNull /\ SizeMismatch(acc, chunk)
    THEN [error |-> "ProtocolError", map |-> acc.map]
    ELSE ReduceChoices(acc.map, chunk.choices, 1)

(***************************************************************************)
(* Outputs a run records.  The text a provider sent is a sequence of       *)
(* characters, wrapped as a text.                                          *)
(***************************************************************************)
ProviderText(chars) ==
    [of |-> "provider", part |-> "output", with |-> "literal", chars |-> chars]

NoRaw == [t |-> "undefined"]
RunMetadata(role, rawRole, name, raw) ==
    [role |-> role, raw_response_role |-> rawRole, name |-> name, raw_response |-> raw]

RunOutput(data, index, metadata) ==
    [output_type |-> "execute_result", data |-> data, execution_count |-> index,
     metadata |-> metadata]

\* let output = {} as ExecuteResult
EmptyOutput == [output_type |-> "undefined"]

NoData == [k |-> "undefined"]

HasField(message, key) ==
    /\ key \in DOMAIN message.o
    /\ message.o[key].t # "null"

\* A string field of a message, "undefined" when it is absent or no string.
StringField(message, key) ==
    IF HasField(message, key) /\ message.o[key].t = "str"
    THEN message.o[key].s ELSE "undefined"

\* buildOutputData(message): the content if there is one, else the function
\* call as a tool_calls value, else undefined.
buildOutputData(message) ==
    IF HasField(message, "content")
    THEN IF message.o["content"].t = "str"
         THEN Data("string", ProviderText(message.o["content"].s), "undefined", <<>>)
         ELSE Data("json", NoText, "undefined", << message.o["content"] >>)
    ELSE IF HasField(message, "function_call")
    THEN Data("tool_calls", NoText, "undefined", << message.o["function_call"] >>)
    ELSE NoData

\* outputs.set(index, output) on a Map kept in insertion order
MapSet(map, index, value) ==
    IF \E j \in 1..Len(map) : map[j].index = index
    THEN [j \in 1..Len(map) |->
            IF map[j].index = index THEN [index |-> index, output |-> value] ELSE map[j]]
    ELSE Append(map, [index |-> index, output |-> value])

\* Array.from(outputs.values())
MapValues(map) == [j \in 1..Len(map) |-> map[j].output]

(***************************************************************************)
(* OpenAIChatModelParser.run, the body of the loop over a chunk's choices, *)
(* after the chunk was folded into the accumulator map.                    *)
(***************************************************************************)
ChatStreamOutput(choice, message) ==
    RunOutput(buildOutputData(message), choice.index,
              RunMetadata("undefined", StringField(message, "role"),
                          StringField(message, "name"), message))

RECURSIVE ChatChoices(_, _, _, _, _, _)
ChatChoices(choices, i, map, outs, calls, withCallbacks) ==
    IF i > Len(choices) THEN [outputs |-> outs, callbacks |-> calls]
    ELSE LET choice == choices[i]
             message == map[choice.index]
             called == IF withCallbacks
                       THEN Append(calls, [data |-> choice.delta,
                                           accumulatedData |-> message,
                                           index |-> choice.index])
                       ELSE calls
         IN  IF buildOutputData(message) = NoData
             THEN ChatChoices(choices, i + 1, map, outs, called, withCallbacks)
             ELSE ChatChoices(choices, i + 1, map,
                              MapSet(outs, choice.index, ChatStreamOutput(choice, message)),
                              called, withCallbacks)

(***************************************************************************)
(* OpenAIModelParser.run, the body of the loop over a chunk's choices.     *)
(***************************************************************************)
CompletionStreamOutput(choice, accumulatedText) ==
    RunOutput(Data("string", ProviderText(accumulatedText), "undefined", <<>>),
              choice.index,
              RunMetadata("undefined", "undefined", "undefined", NoRaw))

RECURSIVE CompletionChoices(_, _, _, _, _, _)
CompletionChoices(choices, i, texts, outs, calls, withCallbacks) ==
    IF i > Len(choices)
    THEN [completions |-> texts, outputs |-> outs, callbacks |-> calls]
    ELSE LET choice == choices[i]
             completionText == IF choice.index \in DOMAIN texts
                               THEN texts[choice.index] ELSE <<>>
             accumulatedText == completionText \o choice.text
             called == IF withCallbacks
                       THEN Append(calls, [data |-> choice.text,
                                           accumulatedData |-> accumulatedText,
                                           index |-> choice.index])
                       ELSE calls
         IN  CompletionChoices(choices, i + 1,
                               (choice.index :> accumulatedText) @@ texts,
                               MapSet(outs, choice.index,
                                      CompletionStreamOutput(choice, accumulatedText)),
                               called, withCallbacks)

(***************************************************************************)
(* constructStreamOutput and constructOutput of the text-generation parser *)
(***************************************************************************)
\* The output constructStreamOutput builds in one iteration.
IterationOutput(newText) ==
    RunOutput(Data("string", ProviderText(newText), "undefined", <<>>), 0,
              RunMetadata("undefined", "undefined", "undefined", NoRaw))

constructOutput(generated_text) ==
    RunOutput(Data("string", ProviderText(generated_text), "undefined", <<>>), 0,
              RunMetadata("undefined", "undefined", "undefined", [t |-> "response"]))

(***************************************************************************)
(* Whether run streams.                                                    *)
(***************************************************************************)
\* options: given or not; options.stream: "undefined", "true" or "false".
Options(given, stream) == [given |-> given, stream |-> stream]
NoOptions == Options(FALSE, "undefined")

\* options?.stream ?? completionParams.stream ?? true
StreamOrDefault(options, paramsStream) ==
    IF options.given /\ options.stream # "undefined" THEN options.stream = "true"
    ELSE IF paramsStream # "undefined" THEN paramsStream = "true"
    ELSE TRUE

\* options ? (options.stream ? options.stream : true) : false
HuggingFaceStream(options) ==
    IF options.given
    THEN IF options.stream = "true" THEN options.stream = "true" ELSE TRUE
    ELSE FALSE

Streams(variant, options, paramsStream) ==
    IF variant = "text-generation" THEN HuggingFaceStream(options)
    ELSE StreamOrDefault(options, paramsStream)

(***************************************************************************)
(* What the providers send.                                                *)
(***************************************************************************)
Variants == {"text-completion", "chat-completion", "text-generation"}

KV(key, value) == key :> value
Chars(c) == JStr(<< c >>)

\* Deltas of a chat stream: text, a function call in two parts, null
\* fields, and fields of every other type.
DeltaA == JObj(KV("role", JStr(<<"assistant">>)) @@ KV("content", Chars("H"))
               @@ KV("extra", JNum(1))
               @@ KV("tool_calls", JArr(<< JObj(KV("index", JNum(0))) >>)))
DeltaB == JObj(KV("content", Chars("i")) @@ KV("extra", JNum(2))
               @@ KV("tool_calls", JArr(<< JObj(KV("index", JNum(1))) >>)))
DeltaT == JObj(KV("content", Chars("!")))
DeltaN == JObj(KV("content", JNull)
               @@ KV("function_call",
                        JObj(KV("name", Chars("f")) @@ KV("arguments", Chars("{")))))
DeltaF == JObj(KV("function_call", JObj(KV("arguments", Chars("}")))))
DeltaZ == JObj(KV("function_call", JNull))
DeltaM == JObj(KV("function_call", Chars("s")) @@ KV("extra", Chars("e")))
DeltaK == JObj(KV("function_call", JNum(3)) @@ KV("content", JNum(7)))

ChatChoice(index, delta) == [index |-> index, delta |-> delta]
Chunk(choices) == [choices |-> choices]

ChatChunks ==
    { Chunk(<<>>) }
    \cup { Chunk(<< ChatChoice(0, d) >>) :
             d \in {DeltaA, DeltaB, DeltaT, DeltaN, DeltaF, DeltaZ, DeltaM, DeltaK} }
    \cup { Chunk(<< ChatChoice(1, d) >>) : d \in {DeltaA, DeltaT} }
    \cup { Chunk(<< ChatChoice(0, DeltaA), ChatChoice(1, DeltaT) >>),
           Chunk(<< ChatChoice(1, DeltaT), ChatChoice(0, DeltaB) >>),
           Chunk(<< ChatChoice(0, DeltaT), ChatChoice(1, DeltaA) >>) }

TextChoice(index, text) == [index |-> index, text |-> text]

CompletionChunks ==
    { Chunk(<<>>),
      Chunk(<< TextChoice(0, <<"H">>) >>), Chunk(<< TextChoice(0, <<"i">>) >>),
      Chunk(<< TextChoice(1, <<"!">>) >>),
      Chunk(<< TextChoice(0, <<"H">>), TextChoice(1, <<"i">>) >>) }

\* iteration.token.text
TokenTexts == { <<"H">>, <<"i">>, <<>> }

\* The messages of the choices of a non-streaming chat response.
ChatResponses ==
    { <<>>,
      << ChatChoice(0, JObj(KV("role", JStr(<<"assistant">>))
                            @@ KV("content", JStr(<<"H", "i">>)))) >>,
      << ChatChoice(0, JObj(KV("role", JStr(<<"assistant">>)) @@ KV("content", JNull))),
         ChatChoice(1, DeltaN) >> }

\* The choices of a non-streaming text-completion response.
CompletionResponses ==
    { <<>>, << TextChoice(0, <<"H", "i">>) >>,
      << TextChoice(0, <<"H">>), TextChoice(1, <<"i">>) >> }

\* response.generated_text
GeneratedTexts == { <<"H", "i">> }

(***************************************************************************)
(* getOutputText(aiConfig, output): the text of an output.                 *)
(***************************************************************************)
\* JSON.stringify(value)
Stringified(value) == [of |-> "JSON.stringify", part |-> "output", with |-> "literal",
                       value |-> value]

getOutputText(out) ==
    IF out.output_type # "execute_result" THEN EmptyText
    ELSE IF out.data.k = "string" THEN out.data.text
    ELSE IF out.data.k = "value_string" THEN out.data.text
    ELSE IF out.data.k = "tool_calls" THEN Stringified(out.data.calls)
    ELSE IF out.data.k = "message"
         THEN IF out.data.text # NoText THEN out.data.text
              ELSE IF out.data.calls # <<>> THEN Stringified(out.data.calls[1])
              ELSE EmptyText
    ELSE EmptyText

(***************************************************************************)
(* The state between runs                                                  *)
(***************************************************************************)
NoRun == [variant |-> "none"]

RunIdle ==
    /\ run = NoRun
    /\ pc = "idle"
    /\ error = "none"
    /\ fragments = <<>>
    /\ messages = NullMessages
    /\ previous = NullMessages
    /\ completions = [i \in {} |-> <<>>]
    /\ accumulatedMessage = <<>>
    /\ outputs = <<>>
    /\ hfOutput = EmptyOutput
    /\ callbacks = <<>>

(***************************************************************************)
(* Actions on the document                                                 *)
(***************************************************************************)
\* The application appends a prompt to the document.
AddPrompt(prompt) ==
    /\ Len(prompts) < MaxPrompts
    /\ prompts' = Append(prompts, prompt)
    /\ request' = NoRequest
    /\ UNCHANGED <<hubVars, evalVars, parserVars, heapVars, models, runVars>>

\* The record of a deserialize call and of what it returned.
DeserializeCall(prompt, params) ==
    LET settings == getModelSettings(prompt, models)
    IN  [op |-> "deserialize", prompt |-> prompt, params |-> params,
         settings |-> settings,
         messages |-> deserializeMessages(prompt, prompts, settings, params)]

\* The stored messages list has room for the turns a call pushes onto it.
StoredHasRoom(prompt) ==
    LET settings == getModelSettings(prompt, models)
    IN  settings.messages.has => Len(settings.messages.list) + 2 <= MaxStoredMessages

\* OpenAIChatModelParser.deserialize(prompts[i], aiConfig, params)
Deserialize(i, params) ==
    LET prompt == prompts[i]
    IN  /\ pc = "idle"
        /\ StoredHasRoom(prompt)
        /\ request' = DeserializeCall(prompt, params)
        /\ models' = settingsAfterDeserialize(prompt, prompts,
                                              getModelSettings(prompt, models), params)
        /\ UNCHANGED <<hubVars, evalVars, parserVars, heapVars, prompts, runVars>>

(***************************************************************************)
(* run(prompts[i], aiConfig, options, params), up to the point where the   *)
(* request is dispatched: deserialize, then the choice between a streaming *)
(* and a non-streaming request.                                            *)
(***************************************************************************)
RunStart(variant, i, options, params) ==
    LET prompt == prompts[i]
        settings == getModelSettings(prompt, models)
        stream == Streams(variant, options, settings.stream)
    IN  /\ pc = "idle"
        /\ StoredHasRoom(prompt)
        /\ IF variant = "chat-completion"
           THEN /\ request' = DeserializeCall(prompt, params)
                /\ models' = settingsAfterDeserialize(prompt, prompts, settings, params)
           ELSE UNCHANGED <<request, models>>
        /\ run' = [variant |-> variant, prompt |-> i, options |-> options,
                   stream |-> stream]
        /\ pc' = IF stream THEN "streaming" ELSE "awaiting"
        /\ UNCHANGED <<hubVars, evalVars, parserVars, heapVars, prompts, error, fragments, messages, previous, completions,
                       accumulatedMessage, outputs, hfOutput, callbacks>>

\* OpenAIChatModelParser.run: one turn of  for await (const chunk of responseStream)
ChatChunk(chunk) ==
    LET reduced == multiChoiceMessageReducer(messages, chunk)
        after == ChatChoices(chunk.choices, 1, reduced.map, outputs, callbacks,
                             run.options.given)
    IN  /\ pc = "streaming"
        /\ run.variant = "chat-completion"
        /\ Len(fragments) < MaxChunks
        /\ fragments' = Append(fragments, chunk)
        /\ previous' = messages
        /\ IF reduced.error # "none"
           THEN \* the reducer threw: messages keeps the Map object it referred to
                /\ pc' = "failed"
                /\ error' = reduced.error
                /\ messages' = IF messages.isNull THEN messages
                               ELSE [isNull |-> FALSE, map |-> reduced.map]
                /\ UNCHANGED <<outputs, callbacks>>
           ELSE /\ messages' = [isNull |-> FALSE, map |-> reduced.map]
                /\ outputs' = after.outputs
                /\ callbacks' = after.callbacks
                /\ UNCHANGED <<pc, error>>
        /\ UNCHANGED <<hubVars, evalVars, parserVars, heapVars, chatVars, run, completions, accumulatedMessage, hfOutput>>

\* OpenAIModelParser.run: one turn of  for await (const chunk of responseStream)
CompletionChunk(chunk) ==
    LET after == CompletionChoices(chunk.choices, 1, completions, outputs, callbacks,
                                   run.options.given)
    IN  /\ pc = "streaming"
        /\ run.variant = "text-completion"
        /\ Len(fragments) < MaxChunks
        /\ fragments' = Append(fragments, chunk)
        /\ completions' = after.completions
        /\ outputs' = after.outputs
        /\ callbacks' = after.callbacks
        /\ UNCHANGED <<hubVars, evalVars, parserVars, heapVars, chatVars, run, pc, error, messages, previous, accumulatedMessage,
                       hfOutput>>

\* constructStreamOutput: one turn of  for await (const iteration of response)
TokenIteration(newText) ==
    /\ pc = "streaming"
    /\ run.variant = "text-generation"
    /\ Len(fragments) < MaxChunks
    /\ fragments' = Append(fragments, newText)
    /\ accumulatedMessage' = accumulatedMessage \o newText
    /\ callbacks' = Append(callbacks, [data |-> newText,
                                       accumulatedData |-> accumulatedMessage \o newText,
                                       index |-> 0])
    /\ hfOutput' = IterationOutput(newText)
    /\ UNCHANGED <<hubVars, evalVars, parserVars, heapVars, chatVars, run, pc, error, messages, previous, completions, outputs>>

\* The stream ends: the outputs are written to the prompt and returned.
StreamEnd ==
    /\ pc = "streaming"
    /\ prompts' = [prompts EXCEPT ![run.prompt].outputs =
                      IF run.variant = "text-generation" THEN << hfOutput >>
                      ELSE MapValues(outputs)]
    /\ pc' = "done"
    /\ UNCHANGED <<hubVars, evalVars, parserVars, heapVars, models, request, run, error, fragments, messages, previous,
                   completions, accumulatedMessage, outputs, hfOutput, callbacks>>

\* OpenAIChatModelParser.run: the outputs of a non-streaming response.
RECURSIVE ChatResponseOutputs(_, _)
ChatResponseOutputs(choices, i) ==
    IF i > Len(choices) THEN <<>>
    ELSE LET message == choices[i].delta
             rest == ChatResponseOutputs(choices, i + 1)
         IN  IF buildOutputData(message) = NoData THEN rest
             ELSE << RunOutput(buildOutputData(message), choices[i].index,
                               RunMetadata(StringField(message, "role"),
                                           StringField(message, "role"),
                                           StringField(message, "name"), message)) >>
                  \o rest

\* OpenAIModelParser.run: the outputs of a non-streaming response.
CompletionResponseOutputs(choices) ==
    [j \in 1..Len(choices) |->
        RunOutput(Data("string", ProviderText(choices[j].text), "undefined", <<>>),
                  choices[j].index,
                  RunMetadata("undefined", "undefined", "undefined", [t |-> "response"]))]

\* A variant that appends the outputs to the ones the prompt holds.
Response_Append(outs) ==
    /\ pc = "awaiting"
    /\ prompts' = [prompts EXCEPT ![run.prompt].outputs = @ \o outs]
    /\ pc' = "done"
    /\ UNCHANGED <<hubVars, evalVars, parserVars, heapVars, models, request, run, error, fragments, messages, previous,
                   completions, accumulatedMessage, outputs, hfOutput, callbacks>>

\* The non-streaming response arrives: the outputs are written and returned.
Response(outs) ==
    /\ pc = "awaiting"
    /\ prompts' = [prompts EXCEPT ![run.prompt].outputs = outs]
    /\ pc' = "done"
    /\ UNCHANGED <<hubVars, evalVars, parserVars, heapVars, models, request, run, error, fragments, messages, previous,
                   completions, accumulatedMessage, outputs, hfOutput, callbacks>>

ChatResponse(choices) ==
    /\ run.variant = "chat-completion"
    /\ Response(ChatResponseOutputs(choices, 1))

CompletionResponse(choices) ==
    /\ run.variant = "text-completion"
    /\ Response(CompletionResponseOutputs(choices))

TextGenerationResponse(generated_text) ==
    /\ run.variant = "text-generation"
    /\ Response(<< constructOutput(generated_text) >>)

\* A variant that writes the outputs built so far when the run fails.
ProviderError_Commit ==
    /\ pc \in {"streaming", "awaiting"}
    /\ pc' = "failed"
    /\ error' = "ProviderError"
    /\ prompts' = [prompts EXCEPT ![run.prompt].outputs = MapValues(outputs)]
    /\ UNCHANGED <<hubVars, evalVars, parserVars, heapVars, models, request, run, fragments, messages, previous,
                   completions, accumulatedMessage, outputs, hfOutput, callbacks>>

\* The awaited provider call, or the stream, rejects: run rejects with it.
ProviderError ==
    /\ pc \in {"streaming", "awaiting"}
    /\ pc' = "failed"
    /\ error' = "ProviderError"
    /\ UNCHANGED <<hubVars, evalVars, parserVars, heapVars, chatVars, run, fragments, messages, previous, completions,
                   accumulatedMessage, outputs, hfOutput, callbacks>>

(***************************************************************************)
(* CallbackManager.runCallbacks and withTimeout.  The listeners are async  *)
(* functions, alike but for when and how their promises settle, so a       *)
(* notification counts its tasks by state.  A task is the race of one      *)
(* listener's promise against its own timer: it is pending, or fulfilled   *)
(* or rejected with the listener, or timed out.  A listener that settles   *)
(* after its task timed out changes nothing.                               *)
(***************************************************************************)
\* runCallbacks(event): one task per listener; Promise.all of no task is
\* fulfilled.
Notification(name, n) ==
    [name |-> name, pending |-> n, fulfilled |-> 0, rejected |-> 0, timeout |-> 0,
     all |-> IF n = 0 THEN "fulfilled" ELSE "pending"]

\* A timer that never fires, as if it were cleared when it is set: the
\* settling of every notification (C12) tells it from TimerArmed.
TimerArmed_Never(n) == FALSE

\* Some task's timer is set: it has not fired, and the listener's promise has
\* not settled, which clears it (promise.finally).
TimerArmed(n) == n.pending > 0

\* Promise.all(tasks) after one more task settled: it rejects with the first
\* rejection, and is fulfilled when the last task is.
PromiseAll(n, outcome) ==
    IF n.all # "pending" THEN n.all
    ELSE IF outcome # "fulfilled" THEN outcome
    ELSE IF n.pending = 1 THEN "fulfilled"
    ELSE "pending"

\* Promise.race settles one task of the notification.
TaskSettles(n, outcome) ==
    [n EXCEPT !.pending = @ - 1,
              ![outcome] = @ + 1,
              !.all = PromiseAll(n, outcome)]

\* this.results = await Promise.all(tasks): assigned when all are fulfilled.
NoResults == [of |-> "none", n |-> 0]

ResultsAfter(old, new, current) ==
    IF old.all = "pending" /\ new.all = "fulfilled"
    THEN [of |-> new.name, n |-> new.fulfilled]
    ELSE current

\* The results of a notification made just now.
ResultsOf(ns, current) ==
    IF ns # <<>> /\ ns[Len(ns)].all = "fulfilled"
    THEN [of |-> ns[Len(ns)].name, n |-> 0]
    ELSE current

\* The notifications a call makes for the events named, in order.
Notify(names) == [j \in 1..Len(names) |-> Notification(names[j], listeners)]

\* What the caller's  await runCallbacks(...)  rejects with.
Rejection(n) == IF n.all = "timeout" THEN "Timeout" ELSE "ListenerError"

(***************************************************************************)
(* The lifecycle hooks of the parsers.  OpenAIModelParser notifies none;   *)
(* the other two notify without await in serialize and deserialize, and    *)
(* await the notification in run.                                          *)
(***************************************************************************)
HasHooks(variant) == variant # "text-completion"

\* The events a serialize or deserialize call notifies, start to end.
HookEvents(op, variant) ==
    IF HasHooks(variant)
    THEN << "on_" \o op \o "_start", "on_" \o op \o "_end" >>
    ELSE <<>>

\* The most notifications one call makes: run's two and deserialize's two.
MaxNotifications == 4

NoCall == [op |-> "none"]

HubIdle ==
    /\ caller = NoCall
    /\ phase = "idle"
    /\ failure = "none"
    /\ events = <<>>
    /\ notifications = <<>>
    /\ results = NoResults

NoArgs == [f |-> "none"]

EvalIdle ==
    /\ args = NoArgs
    /\ result = NoArgs

\* A parser instance before any run call: no client, no call.
NoRunCall == [pc |-> "none", variant |-> "none", uses |-> 0, stream |-> FALSE,
              chunks |-> 0, built |-> <<>>]
ParserIdle ==
    /\ client = 0
    /\ constructed = 0
    /\ activeRuns = [c \in 1..MaxRuns |-> NoRunCall]
    /\ timeline = [assigned |-> <<>>, returned |-> <<>>]

\* No stream was folded: nothing allocated, let messages = null.
NoRefs == [isNull |-> TRUE, map |-> [i \in {} |-> 0], handed |-> <<>>, chunks |-> 0,
           error |-> "none"]
HeapIdle ==
    /\ heap = <<>>
    /\ refs = NoRefs

\* A listener's promise settles before its task's timer fires.
ListenerSettles(k, outcome) ==
    /\ notifications[k].pending > 0
    /\ notifications' = [notifications EXCEPT ![k] = TaskSettles(@, outcome)]
    /\ results' = ResultsAfter(notifications[k], notifications'[k], results)
    /\ UNCHANGED <<chatVars, runVars, evalVars, parserVars, heapVars, listeners, caller, phase, failure,
                   events>>

\* The timer of a pending task fires: the task rejects with Error("Timeout").
TimerFires(k) ==
    /\ TimerArmed(notifications[k])
    /\ notifications' = [notifications EXCEPT ![k] = TaskSettles(@, "timeout")]
    /\ UNCHANGED <<chatVars, runVars, evalVars, parserVars, heapVars, listeners, caller, phase, failure, events,
                   results>>

\* serialize or deserialize: a synchronous call; it notifies its start,
\* executes its body, notifies its end and returns, awaiting nothing.
SyncCall(op, variant) ==
    /\ phase = "idle"
    /\ caller' = [op |-> op, variant |-> variant]
    /\ events' = HookEvents(op, variant)
    /\ notifications' = Notify(HookEvents(op, variant))
    /\ results' = ResultsOf(notifications', results)
    /\ phase' = "returned"
    /\ UNCHANGED <<chatVars, runVars, evalVars, parserVars, heapVars, listeners, failure>>

\* run, up to its first await: the on_run_start notification, or, without
\* hooks, the provider request.
HookedRun(variant) ==
    /\ phase = "idle"
    /\ caller' = [op |-> "run", variant |-> variant]
    /\ events' = IF HasHooks(variant) THEN << "on_run_start" >> ELSE <<>>
    /\ notifications' = Notify(events')
    /\ results' = ResultsOf(notifications', results)
    /\ phase' = IF HasHooks(variant) THEN "start" ELSE "body"
    /\ UNCHANGED <<chatVars, runVars, evalVars, parserVars, heapVars, listeners, failure>>

\* run resumes from  await runCallbacks(startEvent): it rejects with what the
\* notification rejected with, or goes on to deserialize (two notifications,
\* not awaited) and to the provider request.
RunAfterStart ==
    /\ phase = "start"
    /\ notifications[1].all # "pending"
    /\ IF notifications[1].all = "fulfilled"
       THEN /\ phase' = "body"
            /\ events' = events \o HookEvents("deserialize", caller.variant)
            /\ notifications' = notifications
                                  \o Notify(HookEvents("deserialize", caller.variant))
            /\ results' = ResultsOf(notifications', results)
            /\ UNCHANGED failure
       ELSE /\ phase' = "failed"
            /\ failure' = Rejection(notifications[1])
            /\ UNCHANGED <<events, notifications, results>>
    /\ UNCHANGED <<chatVars, runVars, evalVars, parserVars, heapVars, listeners, caller>>

\* The provider's response was consumed: prompt.outputs is assigned and, with
\* hooks, on_run_end is notified and awaited; without, run returns.
RunBody ==
    /\ phase = "body"
    /\ events' = IF HasHooks(caller.variant) THEN Append(events, "on_run_end") ELSE events
    /\ notifications' = IF HasHooks(caller.variant)
                        THEN notifications \o Notify(<< "on_run_end" >>)
                        ELSE notifications
    /\ results' = IF HasHooks(caller.variant) THEN ResultsOf(notifications', results)
                  ELSE results
    /\ phase' = IF HasHooks(caller.variant) THEN "end" ELSE "returned"
    /\ UNCHANGED <<chatVars, runVars, evalVars, parserVars, heapVars, listeners, caller, failure>>

\* The provider call rejects: so does run.
RunBodyFails ==
    /\ phase = "body"
    /\ phase' = "failed"
    /\ failure' = "ProviderError"
    /\ UNCHANGED <<chatVars, runVars, evalVars, parserVars, heapVars, listeners, caller, events, notifications,
                   results>>

\* run resumes from  await runCallbacks(endEvent)  and returns prompt.outputs,
\* or rejects with what the notification rejected with.
RunAfterEnd ==
    /\ phase = "end"
    /\ notifications[Len(notifications)].all # "pending"
    /\ IF notifications[Len(notifications)].all = "fulfilled"
       THEN phase' = "returned" /\ UNCHANGED failure
       ELSE phase' = "failed" /\ failure' = Rejection(notifications[Len(notifications)])
    /\ UNCHANGED <<chatVars, runVars, evalVars, parserVars, heapVars, listeners, caller, events, notifications,
                   results>>

(***************************************************************************)
(* utils: isEqual, union and extractOverrideSettings.  Settings are JSON   *)
(* objects: a function from keys to values; the two arguments never share  *)
(* an array or an object, so === holds between primitives only.            *)
(***************************************************************************)
JBool(b) == [t |-> "bool", b |-> b]
JUndefined == [t |-> "undefined"]

\* settings[key], undefined for a key the object does not have
Get(settings, key) == IF key \in DOMAIN settings THEN settings[key] ELSE JUndefined

IsNullish(value) == value.t \in {"null", "undefined"}

\* The truthiness of a value in a condition.
Truthy(value) ==
    IF value.t = "num" THEN value.n # 0
    ELSE IF value.t = "str" THEN value.s # <<>>
    ELSE IF value.t = "bool" THEN value.b
    ELSE ~IsNullish(value)

\* first === second
StrictEqual(first, second) ==
    /\ first.t = second.t
    /\ first.t \notin {"arr", "obj"}
    /\ first = second

\* first?.constructor.name
ConstructorName(value) == IF IsNullish(value) THEN "undefined" ELSE value.t

RECURSIVE isEqual(_, _)
isEqual(first, second) ==
    IF StrictEqual(first, second) THEN TRUE
    ELSE IF (IsNullish(first) \/ IsNullish(second)) /\ (Truthy(first) \/ Truthy(second))
         THEN FALSE
    ELSE IF ConstructorName(first) # ConstructorName(second) THEN FALSE
    ELSE IF first.t = "arr"
         THEN /\ Len(first.a) = Len(second.a)
              /\ \A i \in 1..Len(first.a) : isEqual(first.a[i], second.a[i])
    ELSE IF first.t = "obj"
         THEN /\ Cardinality(DOMAIN first.o) = Cardinality(DOMAIN second.o)
              /\ \A key \in DOMAIN first.o :
                    LET f == first.o[key]
                        g == Get(second.o, key)
                    IN  IF Truthy(f) /\ Truthy(g)
                        THEN IF StrictEqual(f, g) THEN TRUE
                             ELSE IF f.t \in {"arr", "obj"} THEN isEqual(f, g)
                             ELSE FALSE
                        ELSE Truthy(f) = Truthy(g)
    ELSE StrictEqual(first, second)

\* union(Object.keys(a), Object.keys(b))
union(a, b) == a \cup b

\* The overrides: the keys whose two values isEqual tells apart, each with the
\* requested value (undefined for a key the requested settings lack).
extractOverrideSettings(globalModelSettings, inferenceSettings) ==
    LET keys == union(DOMAIN globalModelSettings, DOMAIN inferenceSettings)
        differ == { key \in keys : ~isEqual(Get(globalModelSettings, key),
                                            Get(inferenceSettings, key)) }
    IN  [key \in differ |-> Get(inferenceSettings, key)]

\* The values a setting takes.
SampleValues ==
    { JNull, JNum(0), JNum(1), JBool(FALSE), Chars("H"),
      JArr(<< JNum(1), JObj(KV("a", JNum(0))) >>),
      JArr(<< JNum(1), JObj(KV("a", JNull)) >>),
      JObj(KV("a", JNum(0))), JObj(KV("a", JBool(FALSE))), JObj(KV("b", JNum(0))),
      JObj(KV("a", JObj(KV("b", JNum(1))))), JObj(KV("a", JObj(KV("b", JNum(2))))) }

\* Settings objects over the keys "k" and "m".
SampleModelSettings ==
    LET Part(key, values) == { [x \in {} |-> JNull] } \cup { KV(key, v) : v \in values }
    IN  { a @@ b : a \in Part("k", SampleValues), b \in Part("m", {JNum(1)}) }

\* extractOverrideSettings(configRuntime, inferenceSettings, modelName), and
\* the same computation inlined in the serialize of the OpenAI parsers.
Overrides(f, globalModelSettings, inferenceSettings) ==
    /\ args' = [f |-> f, global |-> globalModelSettings, settings |-> inferenceSettings]
    /\ result' = extractOverrideSettings(globalModelSettings, inferenceSettings)
    /\ UNCHANGED <<chatVars, runVars, hubVars, parserVars, heapVars>>

(***************************************************************************)
(* getOutputText(aiConfig, output?, prompt?) of the three parsers, over    *)
(* outputs as a document stores them: output_type and any JSON as data.    *)
(***************************************************************************)
NoOutput == [output_type |-> "undefined"]
StoredOutput(type, data) == [output_type |-> type, data |-> data]

\* data?.hasOwnProperty(key)
hasOwnProperty(data, key) == data.t = "obj" /\ key \in DOMAIN data.o

\* JSON.stringify(value): undefined for undefined, else the string that
\* encodes the value.
stringify(value) ==
    IF value.t = "undefined" THEN JUndefined ELSE [t |-> "str", encodes |-> value]

\* The branch for data of the old format: the message an OpenAI parser used
\* to save, the generation a Hugging Face parser used to save.
LegacyText(variant, data) ==
    IF variant = "hf"
    THEN IF hasOwnProperty(data, "generated_text") THEN data.o["generated_text"]
         ELSE JStr(<<>>)
    ELSE IF hasOwnProperty(data, "content") /\ hasOwnProperty(data, "role")
         THEN IF ~IsNullish(data.o["content"]) THEN data.o["content"]
              ELSE IF Truthy(Get(data.o, "function_call"))
                   THEN stringify(data.o["function_call"])
              ELSE JStr(<<>>)
    ELSE JStr(<<>>)

\* stored is the outputs of the prompt argument, or "none" without a prompt.
OutputText(variant, given, stored) ==
    LET prompt == [outputs |-> stored]
        output == IF given = NoOutput /\ stored # "none" /\ HasOutput(prompt)
                  THEN getLatestOutput(prompt) ELSE given
    IN  IF output = NoOutput THEN JStr(<<>>)
        ELSE IF output.output_type # "execute_result" THEN JStr(<<>>)
        ELSE IF output.data.t = "str" THEN output.data
        ELSE IF hasOwnProperty(output.data, "value")
             THEN IF output.data.o["value"].t = "str" THEN output.data.o["value"]
                  ELSE stringify(output.data.o["value"])
        ELSE LegacyText(variant, output.data)

TextOfHi == JStr(<< "H", "i" >>)
StoredMessage(content) == JObj(KV("role", Chars("a")) @@ KV("content", content))

\* The data of stored outputs: text, structured values, messages and
\* generations of the old format, and shapes no parser produced.
SampleData ==
    { JUndefined, JNull, JNum(0), JStr(<<>>), TextOfHi, JArr(<< TextOfHi >>),
      JObj(KV("value", TextOfHi)), JObj(KV("value", JNull)), JObj(KV("value", JNum(1))),
      JObj(KV("value", JArr(<< JObj(KV("name", Chars("f"))) >>))),
      StoredMessage(TextOfHi), StoredMessage(JStr(<<>>)), StoredMessage(JNull), StoredMessage(JNum(0)),
      StoredMessage(JArr(<< JObj(KV("text", TextOfHi)) >>)),
      JObj(KV("function_call", JObj(KV("name", Chars("f")))) @@ StoredMessage(JNull).o),
      JObj(KV("content", TextOfHi)),
      JObj(KV("generated_text", TextOfHi)), JObj(KV("generated_text", JNull)),
      JObj(KV("other", JNum(1))) }

SampleStoredOutputs == { StoredOutput(type, data) : type \in {"execute_result", "error"},
                                              data \in SampleData }

SampleOutputLists ==
    {"none", <<>>, << StoredOutput("execute_result", TextOfHi) >>,
     << StoredOutput("execute_result", TextOfHi),
        StoredOutput("execute_result", StoredMessage(JNum(0))) >>}

GetOutputText(variant, given, stored) ==
    /\ args' = [f |-> "getOutputText", variant |-> variant, output |-> given,
                stored |-> stored]
    /\ result' = OutputText(variant, given, stored)
    /\ UNCHANGED <<chatVars, runVars, hubVars, parserVars, heapVars>>

(***************************************************************************)
(* OpenAIChatModelParser.serialize(promptName, data, aiConfig, params) on  *)
(* a document without global settings for the model: every prompt carries  *)
(* the same modelMetadata object, the request without its messages and     *)
(* with the system message as system_prompt.                               *)
(***************************************************************************)
\* data.messages.find((message) => message.role === "system")
systemPromptOf(msgs) ==
    IF \E j \in 1..Len(msgs) : msgs[j].role = "system"
    THEN LET first == CHOOSE j \in 1..Len(msgs) :
                         /\ msgs[j].role = "system"
                         /\ \A k \in 1..(j - 1) : msgs[k].role # "system"
         IN  SystemPrompt("object", msgs[first].content, msgs[first].role)
    ELSE NoSystemPrompt

\* buildOutputData(assistantResponse) for a message of a request
responseOutputData(message) ==
    IF message.content # NoText THEN Data("string", message.content, "undefined", <<>>)
    ELSE IF message.function_call # NoText
         THEN Data("tool_calls", NoText, "undefined", << message.function_call >>)
    ELSE NoData

\* The outputs of the prompt of msgs[i]: the assistant message that follows.
serializedOutputs(msgs, i) ==
    IF i + 1 <= Len(msgs) /\ msgs[i + 1].role = "assistant"
                          /\ responseOutputData(msgs[i + 1]) # NoData
    THEN << Output("execute_result", responseOutputData(msgs[i + 1]),
                   Metadata(msgs[i + 1].role, msgs[i + 1].role, msgs[i + 1].name)) >>
    ELSE <<>>

\* message.role === "user" ? message.content ?? "" : { ...message }
serializedInput(message) ==
    IF message.role = "user" THEN Input("string", OrEmpty(message.content), "undefined")
    ELSE Input("message", message.content, message.role)

\* message.role === "user" || message.role == "function"
IsPromptMessage(message) == message.role \in {"user", "function"}

\* The while loop over data.messages, from index i on.
RECURSIVE serializePrompts(_, _, _, _)
serializePrompts(promptName, msgs, i, ps) ==
    IF i > Len(msgs) THEN ps
    ELSE IF IsPromptMessage(msgs[i])
         THEN serializePrompts(promptName, msgs, i + 1,
                  Append(ps, Prompt(promptName \o "_" \o ToString(Len(ps) + 1),
                                    serializedInput(msgs[i]), "true",
                                    serializedOutputs(msgs, i))))
         ELSE serializePrompts(promptName, msgs, i + 1, ps)

\* The prompts and the model metadata they carry; prompts[prompts.length - 1]
\* of no prompt is undefined, and the assignment to its name throws.
serialize(promptName, data) ==
    LET ps == serializePrompts(promptName, data.messages, 1, <<>>)
    IN  IF ps = <<>> THEN [error |-> "TypeError"]
        ELSE [error |-> "none",
              prompts |-> [ps EXCEPT ![Len(ps)].name = promptName],
              settings |-> Settings(systemPromptOf(data.messages), NoMessages, "undefined")]

\* The messages of chat requests.
RequestMessages ==
    { Message("system", Literal("s", "system"), NoText, "undefined"),
      Message("user", Literal("u", "input"), NoText, "undefined"),
      Message("user", Literal("v", "input"), NoText, "undefined"),
      Message("function", Literal("f", "input"), NoText, "undefined"),
      Message("assistant", Literal("a", "output"), NoText, "undefined"),
      Message("assistant", NoText, Literal("a", "call"), "undefined") }

RECURSIVE MessageLists(_)
MessageLists(n) ==
    IF n = 0 THEN { <<>> }
    ELSE MessageLists(n - 1)
         \cup { Append(l, m) : l \in { x \in MessageLists(n - 1) : Len(x) = n - 1 },
                               m \in RequestMessages }

SampleRequests == { [messages |-> l] : l \in MessageLists(MaxRequestMessages) \ { <<>> } }

\* serialize("p", data, aiConfig), and the prompts put into an empty document.
SerializeRequest(data) ==
    LET serialized == serialize("p", data)
    IN  /\ args = NoArgs
        /\ prompts = <<>>
        /\ pc = "idle"
        /\ args' = [f |-> "serialize", data |-> data]
        /\ result' = serialized
        /\ IF serialized.error = "none"
           THEN /\ prompts' = serialized.prompts
                /\ models' = serialized.settings
           ELSE UNCHANGED <<prompts, models>>
        /\ UNCHANGED <<request, runVars, hubVars, parserVars, heapVars>>

\* serialize("p", completionParams, aiConfig) of what deserialize returned.
SerializeAgain ==
    /\ args # NoArgs
    /\ args.f = "serialize"
    /\ request # NoRequest
    /\ args' = [f |-> "serialize again", data |-> args.data,
                deserialized |-> request.messages]
    /\ result' = serialize("p", [messages |-> request.messages])
    /\ UNCHANGED <<chatVars, runVars, hubVars, parserVars, heapVars>>

(***************************************************************************)
(* Concurrent run calls on one parser instance and one prompt.  A call     *)
(* runs without interruption from one await to the next: the notification  *)
(* of on_run_start, the provider call, each turn of the for-await loop,    *)
(* and the notification of on_run_end.  Each call keeps the address of the *)
(* client it sent its request with, the chunks it consumed and its local   *)
(* outputs (built).  The settings of the document hold nothing that        *)
(* deserialize resolves.                                                   *)
(***************************************************************************)
\* A variant that constructs a client in every call.
LazyClient_Fresh(current, count) == count + 1

\* if (!this.openai) { this.openai = new OpenAI(...) }: the field after the
\* statement, a constructed client being numbered by its construction.
LazyClient(current, count) == IF current = 0 THEN count + 1 ELSE current

\* The synchronous section from the test of the client to the awaited
\* provider call.
Dispatched(c, variant, stream) ==
    LET used == LazyClient(client, constructed)
    IN  /\ client' = used
        /\ constructed' = IF used = client THEN constructed ELSE constructed + 1
        /\ activeRuns' = [activeRuns EXCEPT ![c] =
              [@ EXCEPT !.pc = IF stream THEN "streaming" ELSE "awaiting",
                        !.variant = variant, !.stream = stream, !.uses = used]]

\* run(prompt, aiConfig, options, params) is called.
CallRun(c, variant, stream) ==
    /\ activeRuns[c].pc = "none"
    /\ \A d \in 1..(c - 1) : activeRuns[d].pc # "none" /\ activeRuns[d].variant = variant
    /\ IF HasHooks(variant)
       THEN /\ activeRuns' = [activeRuns EXCEPT ![c] =
                  [@ EXCEPT !.pc = "starting", !.variant = variant, !.stream = stream]]
            /\ UNCHANGED <<client, constructed>>
       ELSE Dispatched(c, variant, stream)
    /\ UNCHANGED <<chatVars, runVars, hubVars, evalVars, heapVars, timeline>>

\* await runCallbacks(startEvent) settles: the call goes on, or rejects with
\* the timeout of a listener.
StartNotified(c, outcome) ==
    /\ activeRuns[c].pc = "starting"
    /\ outcome = "Timeout" => listeners > 0
    /\ IF outcome = "fulfilled"
       THEN Dispatched(c, activeRuns[c].variant, activeRuns[c].stream)
       ELSE /\ activeRuns' = [activeRuns EXCEPT ![c].pc = "failed"]
            /\ UNCHANGED <<client, constructed>>
    /\ UNCHANGED <<chatVars, runVars, hubVars, evalVars, heapVars, timeline>>

\* The output a call builds from its n-th chunk, or for its n-th choice.
BuiltOutput(c, n) ==
    RunOutput(Data("string", ProviderText([k \in 1..n |-> ToString(c)]), "undefined", <<>>),
              (n - 1) % 2,
              RunMetadata("undefined", "undefined", "undefined", NoRaw))

\* One turn of the for-await loop: the chunk's choice alternates between the
\* indices 0 and 1; a text-generation stream keeps its latest output.
RunChunk(c) ==
    LET call == activeRuns[c]
        n == call.chunks + 1
    IN  /\ call.pc = "streaming"
        /\ call.chunks < MaxChunks
        /\ activeRuns' = [activeRuns EXCEPT ![c] =
              [@ EXCEPT !.chunks = n,
                        !.built = IF call.variant = "text-generation"
                                  THEN MapSet(<<>>, 0, BuiltOutput(c, n))
                                  ELSE MapSet(@, (n - 1) % 2, BuiltOutput(c, n))]]
        /\ UNCHANGED <<chatVars, runVars, hubVars, evalVars, heapVars, client,
                       constructed, timeline>>

\* A variant that keeps the outputs the prompt holds.
Assigned_Merged(current, outs) == current \o outs

\* prompt.outputs = outputs: the value assigned.
Assigned(current, outs) == outs

\* The call assigns prompt.outputs; a parser without hooks returns at once,
\* the others notify on_run_end first.
Assigns(c, built, outs) ==
    /\ prompts' = [prompts EXCEPT ![1].outputs = Assigned(@, outs)]
    /\ activeRuns' = [activeRuns EXCEPT ![c] =
          [@ EXCEPT !.built = built,
                    !.pc = IF HasHooks(activeRuns[c].variant) THEN "ending"
                           ELSE "returned"]]
    /\ timeline' = [assigned |-> Append(timeline.assigned, c),
                    returned |-> IF HasHooks(activeRuns[c].variant) THEN timeline.returned
                                 ELSE Append(timeline.returned, c)]
    /\ UNCHANGED <<models, request, runVars, hubVars, evalVars, heapVars, client,
                   constructed>>

\* The stream of the call ends.
RunStreamEnd(c) ==
    /\ activeRuns[c].pc = "streaming"
    /\ Assigns(c, activeRuns[c].built,
               IF activeRuns[c].variant = "text-generation" /\ activeRuns[c].built = <<>>
               THEN << EmptyOutput >>
               ELSE MapValues(activeRuns[c].built))

\* The non-streaming response of the call arrives, with n choices.
RunResponse(c, n) ==
    LET built == [k \in 1..n |-> [index |-> k - 1, output |-> BuiltOutput(c, k)]]
    IN  /\ activeRuns[c].pc = "awaiting"
        /\ activeRuns[c].variant = "text-generation" => n = 1
        /\ Assigns(c, built, MapValues(built))

\* await runCallbacks(endEvent) settles: the call returns, or rejects with
\* the timeout of a listener.  Without listeners the notifications settle in
\* the order they were made.
EndNotified(c, outcome) ==
    /\ activeRuns[c].pc = "ending"
    /\ outcome = "Timeout" => listeners > 0
    /\ listeners = 0 =>
          \A j \in 1..Len(timeline.assigned) :
              activeRuns[timeline.assigned[j]].pc = "ending" =>
                  \A k \in 1..Len(timeline.assigned) : timeline.assigned[k] = c => k <= j
    /\ activeRuns' = [activeRuns EXCEPT ![c].pc =
                         IF outcome = "fulfilled" THEN "returned" ELSE "failed"]
    /\ timeline' = [timeline EXCEPT !.returned =
                       IF outcome = "fulfilled" THEN Append(@, c) ELSE @]
    /\ UNCHANGED <<chatVars, runVars, hubVars, evalVars, heapVars, client, constructed>>

\* The provider call of the run, or its stream, rejects.
RunProviderError(c) ==
    /\ activeRuns[c].pc \in {"streaming", "awaiting"}
    /\ activeRuns' = [activeRuns EXCEPT ![c].pc = "failed"]
    /\ UNCHANGED <<chatVars, runVars, hubVars, evalVars, heapVars, client, constructed,
                   timeline>>

(***************************************************************************)
(* The fold of a chat stream over objects with identity.  The heap is the  *)
(* sequence of the objects and arrays allocated so far, an address being a *)
(* position in it; a field or element holds a primitive value or Ref(a),   *)
(* the reference to the object at address a.  The map of the fold takes a  *)
(* choice index to the address of its message.                             *)
(***************************************************************************)
Ref(a) == [t |-> "ref", at |-> a]
NoFields == [k \in {} |-> JNull]

\* The objects of a parsed chunk: each object and array of the JSON value
\* is a new object on the heap.
RECURSIVE Alloc(_, _)
RECURSIVE AllocFields(_, _, _, _)
RECURSIVE AllocItems(_, _, _, _)
Alloc(h, value) ==
    IF value.t = "obj"
    THEN LET r == AllocFields(h, value.o, DOMAIN value.o, NoFields)
         IN  [heap |-> Append(r.heap, [t |-> "obj", o |-> r.o]),
              val |-> Ref(Len(r.heap) + 1)]
    ELSE IF value.t = "arr"
    THEN LET r == AllocItems(h, value.a, 1, <<>>)
         IN  [heap |-> Append(r.heap, [t |-> "arr", a |-> r.a]),
              val |-> Ref(Len(r.heap) + 1)]
    ELSE [heap |-> h, val |-> value]

AllocFields(h, o, keys, done) ==
    IF keys = {} THEN [heap |-> h, o |-> done]
    ELSE LET key == CHOOSE k \in keys : TRUE
             r == Alloc(h, o[key])
         IN  AllocFields(r.heap, o, keys \ {key}, (key :> r.val) @@ done)

AllocItems(h, a, i, done) ==
    IF i > Len(a) THEN [heap |-> h, a |-> done]
    ELSE LET r == Alloc(h, a[i])
         IN  AllocItems(r.heap, a, i + 1, Append(done, r.val))

\* The keys and values of Object.entries(delta).
EntryKeysAt(h, delta) ==
    IF delta.t = "ref"
    THEN IF h[delta.at].t = "obj" THEN DOMAIN h[delta.at].o
         ELSE { ToString(i - 1) : i \in 1..Len(h[delta.at].a) }
    ELSE IF delta.t = "str" THEN { ToString(i - 1) : i \in 1..Len(delta.s) }
    ELSE {}

EntryValueAt(h, delta, key) ==
    IF delta.t = "ref"
    THEN IF h[delta.at].t = "obj" THEN h[delta.at].o[key]
         ELSE h[delta.at].a[IndexOf(key, Len(h[delta.at].a))]
    ELSE JStr(<< delta.s[IndexOf(key, Len(delta.s))] >>)

\* The own enumerable fields that a spread copies: those of an object, the
\* elements of an array by index.
SpreadFields(cell) ==
    IF cell.t = "obj" THEN cell.o
    ELSE [key \in { ToString(i - 1) : i \in 1..Len(cell.a) } |->
             cell.a[IndexOf(key, Len(cell.a))]]

\* A variant that goes on with the object it was given, for an object.
Copied_InPlace(h, acc) ==
    IF h[acc.at].t = "obj" THEN [heap |-> h, at |-> acc.at]
    ELSE [heap |-> Append(h, [t |-> "obj", o |-> SpreadFields(h[acc.at])]),
          at |-> Len(h) + 1]

\* acc = { ...acc }: a new object with the fields of acc.
Copied(h, acc) ==
    [heap |-> Append(h, [t |-> "obj", o |-> SpreadFields(h[acc.at])]), at |-> Len(h) + 1]

\* acc[key] = value on the object at an address.
Written(h, at, key, value) == [h EXCEPT ![at].o = (key :> value) @@ @]

\* reduce(acc, delta) on the heap: the heap it leaves, the reference it
\* returns, and whether it threw.
RECURSIVE reduceAt(_, _, _)
RECURSIVE reduceEntries(_, _, _, _)
reduceAt(h, acc, delta) ==
    LET copied == Copied(h, acc)
    IN  IF delta.t \in {"null", "undefined"}
        THEN [error |-> TRUE, heap |-> copied.heap, val |-> acc]
        ELSE reduceEntries(copied.heap, copied.at, delta, EntryKeysAt(copied.heap, delta))

reduceEntries(h, at, delta, keys) ==
    IF keys = {} THEN [error |-> FALSE, heap |-> h, val |-> Ref(at)]
    ELSE LET key == CHOOSE k \in keys : TRUE
             value == EntryValueAt(h, delta, key)
             current == IF key \in DOMAIN h[at].o THEN h[at].o[key] ELSE JUndefined
             rest == keys \ {key}
         IN  IF current.t \in {"undefined", "null"}
             THEN reduceEntries(Written(h, at, key, value), at, delta, rest)
             ELSE IF current.t = "str" /\ value.t = "str"
             THEN reduceEntries(Written(h, at, key, JStr(current.s \o value.s)),
                                at, delta, rest)
             ELSE IF current.t = "ref" /\ h[current.at].t = "obj"
             THEN LET r == reduceAt(h, current, value)
                  IN  IF r.error THEN [r EXCEPT !.val = Ref(at)]
                      ELSE reduceEntries(Written(r.heap, at, key, r.val), at, delta, rest)
             ELSE reduceEntries(h, at, delta, rest)

\* The loop of multiChoiceMessageReducer over the choices of a chunk, whose
\* deltas are on the heap: previousMessage ?? [] is a new array when the map
\* has no message for the index.
RECURSIVE ReduceChoicesAt(_, _, _, _)
ReduceChoicesAt(h, map, choices, i) ==
    IF i > Len(choices) THEN [error |-> "none", heap |-> h, map |-> map]
    ELSE LET choice == choices[i]
             fresh == choice.index \notin DOMAIN map
             before == IF fresh THEN Append(h, [t |-> "arr", a |-> <<>>]) ELSE h
             previousMessage == IF fresh THEN Ref(Len(h) + 1) ELSE Ref(map[choice.index])
             r == reduceAt(before, previousMessage, choice.delta)
         IN  IF r.error THEN [error |-> "TypeError", heap |-> r.heap, map |-> map]
             ELSE ReduceChoicesAt(r.heap, (choice.index :> r.val.at) @@ map, choices, i + 1)

\* The choices of a chunk with their deltas allocated.
RECURSIVE AllocChoices(_, _, _, _)
AllocChoices(h, choices, i, done) ==
    IF i > Len(choices) THEN [heap |-> h, choices |-> done]
    ELSE LET r == Alloc(h, choices[i].delta)
         IN  AllocChoices(r.heap, choices, i + 1,
                          Append(done, [index |-> choices[i].index, delta |-> r.val]))

\* One turn of the for-await loop of the chat run, on the heap: the chunk is
\* parsed, folded into the map, and the message of each of its choices is
\* handed to streamCallback and kept as raw_response of the choice's output.
FoldChunk(chunk) ==
    LET parsed == AllocChoices(heap, chunk.choices, 1, <<>>)
        mismatch == ~refs.isNull /\ Cardinality(DOMAIN refs.map) # Len(chunk.choices)
        folded == ReduceChoicesAt(parsed.heap, refs.map, parsed.choices, 1)
    IN  /\ refs.error = "none"
        /\ refs.chunks < MaxChunks
        /\ IF mismatch
           THEN /\ heap' = parsed.heap
                /\ refs' = [refs EXCEPT !.chunks = @ + 1, !.error = "ProtocolError"]
           ELSE /\ heap' = folded.heap
                /\ refs' = [isNull |-> FALSE, map |-> folded.map,
                            chunks |-> refs.chunks + 1, error |-> folded.error,
                            handed |-> IF folded.error # "none" THEN refs.handed
                                       ELSE refs.handed \o
                                            [j \in 1..Len(chunk.choices) |->
                                                folded.map[chunk.choices[j].index]]]
        /\ UNCHANGED <<chatVars, runVars, hubVars, evalVars, parserVars>>

(***************************************************************************)
(* Specifications                                                          *)
(***************************************************************************)
\* The document is built and deserialized.
ChatInit ==
    /\ prompts = <<>>
    /\ models \in SampleSettings
    /\ request = NoRequest
    /\ RunIdle
    /\ listeners = 0
    /\ HubIdle
    /\ EvalIdle
    /\ ParserIdle
    /\ HeapIdle

ChatNext ==
    \/ \E prompt \in SamplePrompts(PromptName(Len(prompts) + 1)) : AddPrompt(prompt)
    \/ \E i \in 1..Len(prompts), params \in Params : Deserialize(i, params)

SpecChat == ChatInit /\ [][ChatNext]_vars

\* A prompt of a one-prompt document is run; the settings may set stream.
StreamSettings ==
    { Settings(NoSystemPrompt, NoMessages, f) : f \in {"undefined", "false"} }

SampleOptions ==
    { NoOptions, Options(TRUE, "undefined"), Options(TRUE, "true"), Options(TRUE, "false") }

StreamInit ==
    /\ prompts = << Prompt("p1", Input("string", Template("p1", "input"), "undefined"),
                           "true", << AnswerOutput("p1") >>),
                    Prompt("p2", Input("string", Template("p2", "input"), "undefined"),
                           "true", << AnswerOutput("p2") >>) >>
    /\ models \in StreamSettings
    /\ request = NoRequest
    /\ RunIdle
    /\ listeners = 0
    /\ HubIdle
    /\ EvalIdle
    /\ ParserIdle
    /\ HeapIdle

StreamNext ==
    \/ \E variant \in Variants, options \in SampleOptions :
          RunStart(variant, 1, options, "x1")
    \/ \E chunk \in ChatChunks : ChatChunk(chunk)
    \/ \E chunk \in CompletionChunks : CompletionChunk(chunk)
    \/ \E newText \in TokenTexts : TokenIteration(newText)
    \/ StreamEnd
    \/ \E choices \in ChatResponses : ChatResponse(choices)
    \/ \E choices \in CompletionResponses : CompletionResponse(choices)
    \/ \E text \in GeneratedTexts : TextGenerationResponse(text)
    \/ ProviderError

SpecStream == StreamInit /\ [][StreamNext]_vars

\* A parser call on a document whose callback manager has listeners attached.
HooksInit ==
    /\ prompts = <<>>
    /\ models = Settings(NoSystemPrompt, NoMessages, "undefined")
    /\ request = NoRequest
    /\ RunIdle
    /\ listeners \in 0..MaxListeners
    /\ HubIdle
    /\ EvalIdle
    /\ ParserIdle
    /\ HeapIdle

TimerFire == \E k \in 1..Len(notifications) : TimerFires(k)

HooksNext ==
    \/ \E op \in {"serialize", "deserialize"}, variant \in Variants : SyncCall(op, variant)
    \/ \E variant \in Variants : HookedRun(variant)
    \/ RunAfterStart
    \/ RunBody
    \/ RunBodyFails
    \/ RunAfterEnd
    \/ \E k \in 1..Len(notifications), outcome \in {"fulfilled", "rejected"} :
          ListenerSettles(k, outcome)
    \/ TimerFire

\* Timers fire: a timer that is set and not cleared eventually fires.
SpecHooks == HooksInit /\ [][HooksNext]_vars /\ WF_vars(TimerFire)

\* The pure functions are applied to sampled arguments.
EvalInit ==
    /\ prompts = <<>>
    /\ models = Settings(NoSystemPrompt, NoMessages, "undefined")
    /\ request = NoRequest
    /\ RunIdle
    /\ listeners = 0
    /\ HubIdle
    /\ EvalIdle
    /\ ParserIdle
    /\ HeapIdle

DiffNext ==
    \/ \E g \in SampleModelSettings, r \in SampleModelSettings :
          Overrides("extractOverrideSettings", g, r)
    \/ \E g \in SampleModelSettings, r \in SampleModelSettings :
          Overrides("serialize", g, r)

SpecDiff == EvalInit /\ [][DiffNext]_vars

TextNext ==
    \E variant \in {"chat", "text-completion", "hf"},
       given \in SampleStoredOutputs \cup {NoOutput}, stored \in SampleOutputLists :
          GetOutputText(variant, given, stored)

SpecText == EvalInit /\ [][TextNext]_vars

\* A chat request is serialized into an empty document, the last prompt is
\* deserialized and the result is serialized again.
RoundTripNext ==
    \/ \E data \in SampleRequests : SerializeRequest(data)
    \/ \E params \in Params :
          /\ prompts # <<>>
          /\ args # NoArgs
          /\ Deserialize(Len(prompts), params)
    \/ SerializeAgain

SpecRoundTrip == EvalInit /\ [][RoundTripNext]_vars

\* Run calls on one parser instance, all for the prompt of a one-prompt
\* document; the callback manager has no listener, or one.
ConcurrentInit ==
    /\ prompts = << Prompt("p1", Input("string", Template("p1", "input"), "undefined"),
                           "true", << AnswerOutput("p1") >>) >>
    /\ models = Settings(NoSystemPrompt, NoMessages, "undefined")
    /\ request = NoRequest
    /\ RunIdle
    /\ listeners \in {0, 1}
    /\ HubIdle
    /\ EvalIdle
    /\ ParserIdle
    /\ HeapIdle

ConcurrentNext ==
    \/ \E c \in 1..MaxRuns, variant \in Variants, stream \in BOOLEAN :
          CallRun(c, variant, stream)
    \/ \E c \in 1..MaxRuns, outcome \in {"fulfilled", "Timeout"} : StartNotified(c, outcome)
    \/ \E c \in 1..MaxRuns : RunChunk(c)
    \/ \E c \in 1..MaxRuns : RunStreamEnd(c)
    \/ \E c \in 1..MaxRuns, n \in 1..2 : RunResponse(c, n)
    \/ \E c \in 1..MaxRuns, outcome \in {"fulfilled", "Timeout"} : EndNotified(c, outcome)
    \/ \E c \in 1..MaxRuns : RunProviderError(c)

SpecConcurrent == ConcurrentInit /\ [][ConcurrentNext]_vars

\* The chunks of one chat stream are folded.
FoldNext == \E chunk \in ChatChunks : FoldChunk(chunk)

SpecFold == EvalInit /\ [][FoldNext]_vars

(***************************************************************************)
(* Notions the claims about deserialize are stated with                    *)
(***************************************************************************)
Deserialized == request.op = "deserialize"

\* The prompt (or settings entry) a message was derived from.
DerivedFrom(m) == IF m.content # NoText THEN m.content.of ELSE m.function_call.of

\* The position of the first prompt of the document named like the target.
TargetIndex == CHOOSE i \in 1..Len(prompts) : prompts[i].name = request.prompt.name

\* The number of leading messages of the request that come from the settings
\* the call obtained: the system message, or the stored messages list.
SettingsPrefix ==
    IF request.settings.messages.has THEN Len(request.settings.messages.list)
    ELSE IF request.settings.system_prompt.k # "undefined" THEN 1 ELSE 0

\* The messages of the request after an optional leading system message.
AfterSystem ==
    IF /\ Len(request.messages) > 0
       /\ request.messages[1].role = "system"
    THEN Tail(request.messages) ELSE request.messages

\* The messages the call built from prompts.
FromPrompts == SubSeq(request.messages, SettingsPrefix + 1, Len(request.messages))

\* The target declares remember_chat_context == false.
DeclaresNoContext == request.prompt.metadata.remember_chat_context = "false"

IsAssistant(m) == m.role = "assistant"
IsTurn(m) == m.role # "assistant"

\* ms is the history of the first k prompts: the non-assistant turns are the
\* inputs of prompts 1..k in order, resolved with the call's params; every
\* assistant message directly follows the turn of its own prompt, which has
\* a recorded output.
HistoryOrdered(ms, k) ==
    LET turns == SelectSeq(ms, IsTurn)
    IN  /\ Len(turns) = k
        /\ \A j \in 1..k :
              /\ turns[j].content.of = prompts[j].name
              /\ turns[j].content.part = "input"
              /\ turns[j].content.with = request.params
        /\ \A j \in 1..Len(ms) : IsAssistant(ms[j]) =>
              /\ j > 1
              /\ IsTurn(ms[j - 1])
              /\ DerivedFrom(ms[j]) = ms[j - 1].content.of
              /\ \E i \in 1..k : /\ prompts[i].name = ms[j - 1].content.of
                                 /\ HasOutput(prompts[i])

\* The first message is the system message of the settings, resolved.
SystemFirst ==
    /\ Len(request.messages) > 0
    /\ request.messages[1].role = request.settings.system_prompt.role
    /\ request.messages[1].content.of = "sys"
    /\ request.messages[1].content.with \in Params

\* The role an output records: metadata.role, else metadata.raw_response.role,
\* else the role of legacy message data.
RecordedRole(output) ==
    IF output.metadata.role # "undefined" THEN output.metadata.role
    ELSE IF output.metadata.raw_response_role # "undefined"
         THEN output.metadata.raw_response_role
    ELSE IF output.data.k = "message" THEN output.data.role
    ELSE "undefined"

C3_AsClaimed ==
    (Deserialized /\ DeclaresNoContext) =>
        /\ Len(AfterSystem) = 1
        /\ IsTurn(AfterSystem[1])
        /\ DerivedFrom(AfterSystem[1]) = request.prompt.name

(***************************************************************************)
(* C3, amended: when the target declares remember_chat_context == false,   *)
(* the request holds, after the messages that come from the settings, only *)
(* the target prompt's own messages: its user (or role-qualified) turn,    *)
(* followed by at most one assistant turn built from the target's latest   *)
(* output; no message of any other prompt.                                 *)
(***************************************************************************)
C3_OnlyTarget ==
    (Deserialized /\ DeclaresNoContext) =>
        /\ Len(FromPrompts) \in {1, 2}
        /\ IsTurn(FromPrompts[1])
        /\ FromPrompts[1].content.part = "input"
        /\ \A j \in 1..Len(FromPrompts) : DerivedFrom(FromPrompts[j]) = request.prompt.name
        /\ Len(FromPrompts) = 2 =>
              /\ IsAssistant(FromPrompts[2])
              /\ HasOutput(request.prompt)

\* The second prompt, answered and declaring remember_chat_context == false,
\* is deserialized: its turn and its answer, nothing of the first prompt.
C3_Witness ==
    /\ Deserialized
    /\ DeclaresNoContext
    /\ ~request.settings.messages.has
    /\ TargetIndex = 2
    /\ Len(FromPrompts) = 2

(***************************************************************************)
(* C4  As claimed: for an execute_result output whose recorded role is     *)
(* not "assistant", addPromptAsMessage appends no assistant message.       *)
(***************************************************************************)
C4_AsClaimed ==
    Deserialized =>
        \A i \in 1..Len(prompts) :
            ( /\ HasOutput(prompts[i])
              /\ getLatestOutput(prompts[i]).output_type = "execute_result"
              /\ RecordedRole(getLatestOutput(prompts[i])) # "assistant" )
            => \A j \in 1..Len(FromPrompts) :
                  IsAssistant(FromPrompts[j]) =>
                      DerivedFrom(FromPrompts[j]) # prompts[i].name

(***************************************************************************)
(* Notions used by the claims about a streaming chat run                   *)
(***************************************************************************)
IsChatRun == run.variant = "chat-completion" /\ run.stream

\* The latest chunk of the stream, once one arrived.
LastChunk == fragments[Len(fragments)]

\* The number of chunks the accumulator took in: all of them, but the one
\* the reducer threw on.
Folded == IF error \in {"ProtocolError", "TypeError"}
          THEN Len(fragments) - 1 ELSE Len(fragments)

\* The latest chunk was checked against an accumulator that existed, and the
\* number of its choices is not the size of that accumulator.
SizeDiffers ==
    /\ IsChatRun
    /\ Len(fragments) > 0
    /\ ~previous.isNull
    /\ Len(LastChunk.choices) # Cardinality(DOMAIN previous.map)

\* C5 (choice-count invariant): once the accumulator of a chat stream exists,
\* a chunk whose number of choices is not the accumulator's size makes the
\* reducer throw the protocol error, the accumulator is as it was before the
\* chunk (no output and no callback come from the chunk either), and the run
\* has failed.
C5_ChoiceCount ==
    SizeDiffers =>
        /\ pc = "failed"
        /\ error = "ProtocolError"
        /\ messages = previous

\* C5 witness: a chunk of one choice arrived after the accumulator tracked
\* two choices, and the run failed with the protocol error.
C5_Witness ==
    /\ SizeDiffers
    /\ Cardinality(DOMAIN previous.map) = 2
    /\ Len(LastChunk.choices) = 1
    /\ error = "ProtocolError"

\* C6 as claimed: a chat stream whose chunks all carry the same number of
\* choices never raises the protocol error.
C6_AsClaimed ==
    ( /\ IsChatRun
      /\ \A j, k \in 1..Len(fragments) :
            Len(fragments[j].choices) = Len(fragments[k].choices) )
    => error # "ProtocolError"

(***************************************************************************)
(* C7: the rules by which one field of a delta is merged                   *)
(***************************************************************************)
\* The latest chunk was folded without an exception.
FoldedLast == IsChatRun /\ Len(fragments) > 0 /\ Folded = Len(fragments)

\* The message the accumulator held for a choice before the latest chunk;
\* an empty one if it held none.
Before(index) == IF index \in DOMAIN previous.map THEN previous.map[index]
                 ELSE EmptyObject

IsUnset(object, key) == key \notin DOMAIN object.o \/ object.o[key].t = "null"

IsMapping(object, key) == key \in DOMAIN object.o /\ object.o[key].t = "obj"

BothStrings(object, key, value) ==
    /\ key \in DOMAIN object.o
    /\ object.o[key].t = "str"
    /\ value.t = "str"

Adopted(new, key, value) == key \in DOMAIN new.o /\ new.o[key] = value

Concatenated(old, new, key, value) ==
    key \in DOMAIN new.o /\ new.o[key] = JStr(old.o[key].s \o value.s)

Kept(old, new, key) == key \in DOMAIN new.o /\ new.o[key] = old.o[key]

\* The three rules the claim and the code agree on, for one field whose
\* accumulated value is no mapping.
AgreedRules(old, new, key, value) ==
    /\ IsUnset(old, key) => Adopted(new, key, value)
    /\ BothStrings(old, key, value) => Concatenated(old, new, key, value)

\* Every other combination where the accumulated value is no mapping: a
\* number, an array, or a string that meets a value that is no string.
OtherCombination(old, key, value) ==
    /\ ~IsUnset(old, key)
    /\ ~IsMapping(old, key)
    /\ ~BothStrings(old, key, value)

\* A mapping merged with a mapping: the same rules, one level down.
MergedMapping(old, new, value) ==
    /\ new.t = "obj"
    /\ DOMAIN new.o = DOMAIN old.o \cup DOMAIN value.o
    /\ \A key \in DOMAIN old.o \ DOMAIN value.o : Kept(old, new, key)
    /\ \A key \in DOMAIN value.o :
          /\ AgreedRules(old, new, key, value.o[key])
          /\ OtherCombination(old, key, value.o[key]) => Kept(old, new, key)

\* The own enumerable entries of a value merged into a mapping: the fields
\* of a mapping, the indexed characters of a string, the elements of an
\* array, nothing for a number.
AsMapping(value) ==
    IF value.t = "obj" THEN value
    ELSE JObj([key \in EntryKeys(value) |-> EntryValue(value, key)])

RECURSIVE Concat(_)
\* s1 + ... + sn
Concat(texts) == IF texts = <<>> THEN <<>> ELSE Head(texts) \o Concat(Tail(texts))

\* The text a choice of a chunk carries: the content of a chat delta, the
\* text of a completion choice.
IsText(choice) ==
    IF run.variant = "chat-completion"
    THEN "content" \in DOMAIN choice.delta.o /\ choice.delta.o["content"].t = "str"
    ELSE TRUE

TextOf(choice) ==
    IF run.variant = "chat-completion" THEN choice.delta.o["content"].s ELSE choice.text

RECURSIVE ChoiceTexts(_, _, _)
\* The texts t1..tn the first n fragments carry for a choice, in arrival
\* order.
ChoiceTexts(frs, n, index) ==
    IF n = 0 THEN <<>>
    ELSE LET mine == SelectSeq(frs[n].choices, LAMBDA c : c.index = index)
         IN  ChoiceTexts(frs, n - 1, index) \o [j \in 1..Len(mine) |-> TextOf(mine[j])]

\* Every fragment for the choice among the first n carries text.
TextOnly(frs, n, index) ==
    \A k \in 1..n : \A j \in 1..Len(frs[k].choices) :
        frs[k].choices[j].index = index => IsText(frs[k].choices[j])

\* The choices the first n fragments name.
Indices(frs, n) ==
    UNION { { frs[k].choices[j].index : j \in 1..Len(frs[k].choices) } : k \in 1..n }

\* The accumulated text of folding one fragment that carries the whole text
\* for one choice.
WholeTextFold(index, text) ==
    multiChoiceMessageReducer(
        NullMessages,
        Chunk(<< ChatChoice(index, JObj(KV("content", JStr(text)))) >>)).map[index]

\* C8 (stream fold associativity on text): in a chat stream, for every choice
\* whose deltas carry the texts t1..tn, the accumulator holds for that choice
\* the text t1+...+tn, which is what folding one fragment with the whole text
\* yields, whatever was folded for the other choices in between; in a
\* completion stream the text accumulated for each choice is t1+...+tn of
\* that choice's own fragments.
C8_TextFold ==
    /\ IsChatRun =>
          \A index \in Indices(fragments, Folded) :
              TextOnly(fragments, Folded, index) =>
                  LET text == Concat(ChoiceTexts(fragments, Folded, index))
                  IN  /\ messages.map[index].o["content"] = JStr(text)
                      /\ messages.map[index].o["content"]
                            = WholeTextFold(index, text).o["content"]
    /\ (run.variant = "text-completion" /\ run.stream) =>
          /\ DOMAIN completions = Indices(fragments, Len(fragments))
          /\ \A index \in DOMAIN completions :
                completions[index] =
                    Concat(ChoiceTexts(fragments, Len(fragments), index))

\* C8 witness: a chat stream folded the texts "H", "i", "!" for choice 0 in
\* three chunks that carry a delta of choice 1 as well.
C8_Witness ==
    /\ IsChatRun
    /\ Folded = 3
    /\ TextOnly(fragments, Folded, 0)
    /\ ChoiceTexts(fragments, Folded, 0) = << <<"H">>, <<"i">>, <<"!">> >>
    /\ Len(ChoiceTexts(fragments, Folded, 1)) = 3
    /\ messages.map[0].o["content"] = JStr(<<"H", "i", "!">>)

\* The accumulated text a streamCallback call carried.
AccumulatedText(call) ==
    IF run.variant = "chat-completion" THEN call.accumulatedData.o["content"].s
    ELSE call.accumulatedData

\* C9 as claimed: in every variant, when a streaming run with a streamCallback
\* has ended, the callback was invoked once per fragment of each choice, in
\* arrival order, the k-th call carrying t1+...+tk, and the prompt holds an
\* output for that choice whose text is t1+...+tn.
C9_AsClaimed ==
    (pc = "done" /\ run.stream /\ run.options.given) =>
        LET frs == IF run.variant = "text-generation"
                   THEN [k \in 1..Len(fragments) |->
                           Chunk(<< TextChoice(0, fragments[k]) >>)]
                   ELSE fragments
            n == Len(frs)
        IN  \A index \in Indices(frs, n) :
                TextOnly(frs, n, index) =>
                    LET texts == ChoiceTexts(frs, n, index)
                        calls == SelectSeq(callbacks, LAMBDA c : c.index = index)
                    IN  /\ Len(calls) = Len(texts)
                        /\ \A k \in 1..Len(calls) :
                              /\ texts[k] = IF run.variant = "chat-completion"
                                            THEN calls[k].data.o["content"].s
                                            ELSE calls[k].data
                              /\ AccumulatedText(calls[k]) = Concat(SubSeq(texts, 1, k))
                        /\ \E j \in 1..Len(prompts[run.prompt].outputs) :
                              LET out == prompts[run.prompt].outputs[j]
                              IN  /\ out.execution_count = index
                                  /\ getOutputText(out) = ProviderText(Concat(texts))

\* C10 as claimed: in every variant, a call that states options.stream
\* streams exactly when options.stream is true; in particular a call with
\* options.stream == false dispatches a non-streaming request.
C10_AsClaimed ==
    (run.variant # "none" /\ run.options.given /\ run.options.stream # "undefined") =>
        /\ run.stream <=> (run.options.stream = "true")
        /\ run.options.stream = "false" => pc # "streaming"

(***************************************************************************)
(* C11 to C14: notifications and lifecycle hooks                           *)
(***************************************************************************)
\* C11 as claimed: the promise of a runCallbacks call settles only when every
\* one of its listeners has completed or timed out, and the results of the
\* listeners that completed are then kept by the callback manager.
C11_AsClaimed ==
    [][\A k \in 1..Len(notifications) :
          (notifications[k].all = "pending" /\ notifications'[k].all # "pending") =>
              /\ notifications'[k].pending = 0
              /\ notifications'[k].fulfilled > 0 =>
                    results' = [of |-> notifications[k].name,
                                n |-> notifications'[k].fulfilled]]_vars

\* C12 (runCallbacks never blocks indefinitely): with timers that fire, the
\* promise of every runCallbacks call eventually settles, whatever its
\* listeners do, also when none of their promises ever settles.
C12_NotifySettles ==
    \A k \in 1..MaxNotifications :
        (Len(notifications) >= k)
            ~> (Len(notifications) >= k /\ notifications[k].all # "pending")

\* C12 witness: a notification settled by a timer while another listener of
\* it had neither settled nor timed out.
C12_Witness ==
    \E k \in 1..Len(notifications) :
        /\ notifications[k].all = "timeout"
        /\ notifications[k].fulfilled = 0
        /\ notifications[k].rejected = 0
        /\ notifications[k].timeout = listeners
        /\ listeners > 1

\* C13 as claimed: a run never fails with the timeout error of a
\* notification, and serialize and deserialize return normally.
C13_AsClaimed ==
    /\ caller.op = "run" => ~(phase = "failed" /\ failure = "Timeout")
    /\ caller.op \in {"serialize", "deserialize"} => phase = "returned"

\* C14 as claimed: in every variant, a serialize call that returned has
\* notified on_serialize_start and on_serialize_end, in that order, once each.
C14_AsClaimed ==
    (caller.op = "serialize" /\ phase = "returned") =>
        events = << "on_serialize_start", "on_serialize_end" >>

(***************************************************************************)
(* C15: diff minimality                                                    *)
(***************************************************************************)
RECURSIVE DeepEqual(_, _)
\* Deep structural equality: equal primitives; arrays of equal length with
\* pairwise equal elements in order; mappings with the same key set and
\* pairwise equal values; otherwise unequal.
DeepEqual(x, y) ==
    IF x.t # y.t THEN FALSE
    ELSE IF x.t = "arr"
         THEN /\ Len(x.a) = Len(y.a)
              /\ \A i \in 1..Len(x.a) : DeepEqual(x.a[i], y.a[i])
    ELSE IF x.t = "obj"
         THEN /\ DOMAIN x.o = DOMAIN y.o
              /\ \A key \in DOMAIN x.o : DeepEqual(x.o[key], y.o[key])
    ELSE x = y

\* C15 as claimed: the overrides computed for global settings G and requested
\* settings R hold a key exactly when G[k] and R[k] are not deeply equal (a
\* key on one side only counts as different), and map it to R[k].
C15_AsClaimed ==
    args # NoArgs =>
        /\ DOMAIN result \subseteq DOMAIN args.global \cup DOMAIN args.settings
        /\ \A key \in DOMAIN args.global \cup DOMAIN args.settings :
              /\ key \in DOMAIN result
                    <=> ~DeepEqual(Get(args.global, key), Get(args.settings, key))
              /\ key \in DOMAIN result => result[key] = Get(args.settings, key)

(***************************************************************************)
(* C16: getOutputText is total                                             *)
(***************************************************************************)
\* The output the call is about: the one given, else the latest of the prompt.
SubjectOutput ==
    IF args.output # NoOutput THEN args.output
    ELSE IF args.stored = "none" \/ args.stored = <<>> THEN NoOutput
    ELSE args.stored[Len(args.stored)]

IsStringValue(value) == value.t = "str"
Encodes(text, value) == /\ IsStringValue(text)
                        /\ "encodes" \in DOMAIN text
                        /\ text.encodes = value
Has(data, key) == data.t = "obj" /\ key \in DOMAIN data.o
IsLegacy(variant, data) ==
    IF variant = "hf" THEN Has(data, "generated_text")
    ELSE Has(data, "content") /\ Has(data, "role")
LegacyContent(variant, data) ==
    IF variant = "hf" THEN data.o["generated_text"] ELSE data.o["content"]

\* C16 as claimed: for every output, and without one, getOutputText returns a
\* string: data itself when it is a string; else data.value when that is a
\* string, otherwise its JSON encoding; else the legacy content, or the
\* JSON-encoded function_call when content is null; else the empty string.
C16_AsClaimed ==
    (args # NoArgs /\ args.f = "getOutputText") =>
        LET output == SubjectOutput
            data == output.data
        IN  /\ IsStringValue(result)
            /\ IF output = NoOutput \/ output.output_type # "execute_result"
               THEN result = JStr(<<>>)
               ELSE IF data.t = "str" THEN result = data
               ELSE IF Has(data, "value")
                    THEN IF data.o["value"].t = "str" THEN result = data.o["value"]
                         ELSE Encodes(result, data.o["value"])
               ELSE IF IsLegacy(args.variant, data)
                    THEN IF LegacyContent(args.variant, data) # JNull
                         THEN result = LegacyContent(args.variant, data)
                         ELSE IF Has(data, "function_call")
                              THEN Encodes(result, data.o["function_call"])
                              ELSE result = JStr(<<>>)
               ELSE result = JStr(<<>>)

(***************************************************************************)
(* C17 to C19: the outputs a run writes                                    *)
(***************************************************************************)
\* The run returned: its outputs are on the prompt.
RunReturned == run # NoRun /\ pc = "done"

\* C17 as claimed: every output a run of any parser writes to prompt.outputs,
\* streaming or not, has a metadata bag with a raw_response entry.
C17_AsClaimed ==
    RunReturned =>
        \A j \in 1..Len(prompts[run.prompt].outputs) :
            LET output == prompts[run.prompt].outputs[j]
            IN  /\ "metadata" \in DOMAIN output
                /\ output.metadata.raw_response # [t |-> "undefined"]

\* The outputs a streaming run built: the values of its map of outputs by
\* choice index, in insertion order; the last output of a token stream.
BuiltByStream ==
    IF run.variant = "text-generation" THEN << hfOutput >>
    ELSE [j \in 1..Len(outputs) |-> outputs[j].output]

\* C18: when a run returns, prompt.outputs is the outputs of that run: none
\* of the outputs the prompt held before remains, a streaming run writes
\* exactly the outputs it built, and every other prompt is left as it was.
C18_Overwrite ==
    [][(pc # "done" /\ pc' = "done") =>
          LET before == prompts[run.prompt].outputs
              written == prompts'[run.prompt].outputs
          IN  /\ \A j \in 1..Len(written), k \in 1..Len(before) : written[j] # before[k]
              /\ run.stream => written = BuiltByStream
              /\ ~run.stream => \A j \in 1..Len(written) :
                                   /\ written[j].output_type = "execute_result"
                                   /\ "execution_count" \in DOMAIN written[j]
              /\ Len(prompts') = Len(prompts)
              /\ \A i \in 1..Len(prompts) : i # run.prompt => prompts'[i] = prompts[i]]_vars

\* A non-streaming run with two choices has returned on a prompt that held
\* an output, next to another prompt with an output.
C18_Witness ==
    /\ RunReturned
    /\ Len(prompts) > 1
    /\ Len(prompts[2].outputs) > 0
    /\ Len(prompts[run.prompt].outputs) = 2
    /\ ~run.stream

\* C19: run writes prompt.outputs only once the whole response was consumed:
\* a step that leaves the run awaiting fragments or a response, or failed with
\* a provider or protocol error, leaves the outputs of every prompt as they
\* were, so that they are what they were before the call.
C19_NoPartialCommit ==
    [][(run' # NoRun /\ pc' \in {"streaming", "awaiting", "failed"}) =>
          /\ Len(prompts') = Len(prompts)
          /\ \A i \in 1..Len(prompts) : prompts'[i].outputs = prompts[i].outputs]_vars

\* A stream failed on a protocol error after outputs were built from its
\* fragments.
C19_Witness ==
    /\ run # NoRun
    /\ pc = "failed"
    /\ error = "ProtocolError"
    /\ Len(fragments) >= 2
    /\ Len(outputs) > 0
    /\ prompts[run.prompt].outputs = << AnswerOutput("p1") >>

(***************************************************************************)
(* C20: round trip of a chat request                                       *)
(***************************************************************************)
\* What a turn says: its content, else its function call.
Turn(role, content, call) ==
    [role |-> role, says |-> IF content # NoText THEN content ELSE call]

\* The effective messages of a request.
EffectiveOfRequest(msgs) ==
    [j \in 1..Len(msgs) |-> Turn(msgs[j].role, msgs[j].content, msgs[j].function_call)]

\* The effective messages of one prompt: its input, then its latest output.
EffectiveOfPrompt(prompt) ==
    << Turn(IF prompt.input.kind = "string" THEN "user" ELSE prompt.input.role,
            prompt.input.text, NoText) >>
    \o IF prompt.outputs = <<>> THEN <<>>
       ELSE LET output == prompt.outputs[Len(prompt.outputs)]
            IN  << Turn(output.metadata.role,
                        IF output.data.k = "string" THEN output.data.text ELSE NoText,
                        IF output.data.k = "tool_calls" THEN output.data.calls[1]
                        ELSE NoText) >>

RECURSIVE EffectiveOfPrompts(_, _)
EffectiveOfPrompts(ps, i) ==
    IF i > Len(ps) THEN <<>>
    ELSE EffectiveOfPrompt(ps[i]) \o EffectiveOfPrompts(ps, i + 1)

\* The effective messages of serialized prompts and their model settings.
EffectiveOfSerialized(serialized) ==
    (IF serialized.settings.system_prompt.k = "undefined" THEN <<>>
     ELSE << Turn(serialized.settings.system_prompt.role,
                  serialized.settings.system_prompt.content, NoText) >>)
    \o EffectiveOfPrompts(serialized.prompts, 1)

\* C20 as claimed: a chat request serializes into prompts, and serializing
\* again what deserialize returns for the last prompt yields prompts whose
\* effective messages are those of the request, in order.
C20_AsClaimed ==
    /\ (args # NoArgs /\ args.f = "serialize") => result.error = "none"
    /\ (args # NoArgs /\ args.f = "serialize again") =>
          /\ result.error = "none"
          /\ EffectiveOfSerialized(result) = EffectiveOfRequest(args.data.messages)

(***************************************************************************)
(* C22: deserialize leaves the document as it was                          *)
(***************************************************************************)
\* C22 as claimed: a deserialize call changes no prompt and no value of the
\* settings object it obtains: a stored system-prompt object and the stored
\* messages keep their unresolved templates.
C22_AsClaimed ==
    [][(request'.op = "deserialize" /\ Len(prompts') = Len(prompts)) =>
          /\ prompts' = prompts
          /\ models' = models]_vars

(***************************************************************************)
(* C21 and C23: concurrent run calls                                       *)
(***************************************************************************)
\* The calls that sent a request to the provider.
Requested == { c \in 1..MaxRuns : activeRuns[c].uses # 0 }

\* C21: a parser instance constructs its provider client at most once, in the
\* first call that needs it, and every call sends its request with that
\* client, however the calls interleave.
C21_OneClient ==
    /\ constructed <= 1
    /\ Requested # {} => constructed = 1
    /\ \A c \in Requested : activeRuns[c].uses = 1 /\ client = 1

\* Two calls have sent their requests and wait for the provider at once.
C21_Witness ==
    /\ Cardinality(Requested) >= 2
    /\ \E c \in Requested, d \in Requested :
          /\ c # d
          /\ activeRuns[c].pc \in {"streaming", "awaiting"}
          /\ activeRuns[d].pc \in {"streaming", "awaiting"}
          /\ activeRuns[c].chunks > 0

\* The calls made, and whether all of them, at least two, have returned.
Called == { c \in 1..MaxRuns : activeRuns[c].pc # "none" }
AllReturned == Cardinality(Called) >= 2 /\ \A c \in Called : activeRuns[c].pc = "returned"

Latest(calls) == calls[Len(calls)]

\* The complete outputs of a call: those it built locally, in the order of
\* its Map; the output {} of a text-generation stream without a token.
CompleteOutputs(c) ==
    IF activeRuns[c].variant = "text-generation" /\ activeRuns[c].built = <<>>
    THEN << [output_type |-> "undefined"] >>
    ELSE [j \in 1..Len(activeRuns[c].built) |-> activeRuns[c].built[j].output]

\* C23 as claimed: after concurrent run calls on one prompt have all
\* completed, prompt.outputs is the complete outputs of the call that
\* finished last.
C23_AsClaimed ==
    AllReturned => prompts[1].outputs = CompleteOutputs(Latest(timeline.returned))

\* C23: once a call assigned prompt.outputs, prompt.outputs is at every moment
\* the complete outputs of the call that assigned last, never a mixture; that
\* call is the one that finished last when the callback manager has no
\* listener or the parser notifies no lifecycle event.
C23_LastWriter ==
    /\ timeline.assigned # <<>> =>
          prompts[1].outputs = CompleteOutputs(Latest(timeline.assigned))
    /\ (AllReturned /\ (listeners = 0 \/ \A c \in Called : activeRuns[c].variant = "text-completion"))
          => Latest(timeline.returned) = Latest(timeline.assigned)

\* Two streaming calls consumed chunks and returned, the one that assigned
\* first returning last.
C23_Witness ==
    /\ AllReturned
    /\ \A c \in Called : activeRuns[c].stream /\ activeRuns[c].chunks >= 2
    /\ Latest(timeline.returned) # Latest(timeline.assigned)

(***************************************************************************)
(* C24: a fold leaves the messages of earlier folds as they were           *)
(***************************************************************************)
\* The value of a field with all that it refers to, at every nesting level.
RECURSIVE DeepValue(_, _)
DeepValue(h, value) ==
    IF value.t # "ref" THEN value
    ELSE IF h[value.at].t = "obj"
         THEN [t |-> "obj", o |-> [key \in DOMAIN h[value.at].o |->
                                      DeepValue(h, h[value.at].o[key])]]
         ELSE [t |-> "arr", a |-> [i \in 1..Len(h[value.at].a) |->
                                      DeepValue(h, h[value.at].a[i])]]

HandedValue(h, k) == DeepValue(h, [t |-> "ref", at |-> refs.handed[k]])

\* C24: folding a fragment changes no field, at any nesting level, of a
\* message that an earlier fold produced and run handed to streamCallback
\* and stored as raw_response.
C24_EarlierMessagesKept ==
    [][\A k \in 1..Len(refs.handed) : HandedValue(heap', k) = HandedValue(heap, k)]_vars

\* Three messages were handed on, and a later one differs from an earlier
\* one inside its function_call object.
C24_Witness ==
    /\ Len(refs.handed) >= 3
    /\ \E j \in 1..Len(refs.handed), k \in 1..Len(refs.handed) :
          LET early == HandedValue(heap, j)
              late == HandedValue(heap, k)
          IN  /\ j < k
              /\ "function_call" \in DOMAIN early.o
              /\ "function_call" \in DOMAIN late.o
              /\ early.o["function_call"].t = "obj"
              /\ late.o["function_call"].t = "obj"
              /\ early.o["function_call"] # late.o["function_call"]

====
